---- MODULE Spec2Model ----
(***************************************************************************)
(* A model of fidget/sym_tracking.py: the driver StructureAnalysis, the    *)
(* worklist traversal analyze_stack, the per-block state BlockState, the   *)
(* per-instruction TempStore and the taint-carrying expression nodes       *)
(* (SmartExpression, CustomExpression, ConstExpression).                   *)
(*                                                                         *)
(* External collaborators (the lifter, the CFG, the architecture           *)
(* descriptor, the symbolic-value engine, the frame object) are inputs:    *)
(* a "binary" fixes what each of them answers.                             *)
(***************************************************************************)
EXTENDS Integers, Sequences, FiniteSets, TLC

(***************************************************************************)
(* Bounds of the model.                                                    *)
(***************************************************************************)
\* native register width of the modelled architectures, in bits
ArchBits == 16
\* width of the narrow integer type used by narrow reads and writes
NarrowBits == 8

\* ConstExpression.addr of a node that has no instruction (None)
NoAddr == -1

(***************************************************************************)
(* Bit vectors (claripy BVV values): [v |-> value, n |-> width].           *)
(***************************************************************************)
RECURSIVE Pow2(_)
Pow2(n) == IF n = 0 THEN 1 ELSE 2 * Pow2(n - 1)

BVV(v, n) == [v |-> v % Pow2(n), n |-> n]

\* bv[hi:lo], claripy's extraction
Extract(hi, lo, bv) == [v |-> (bv.v \div Pow2(lo)) % Pow2(hi - lo + 1), n |-> hi - lo + 1]

Concat(hi, lo) == [v |-> hi.v * Pow2(lo.n) + lo.v, n |-> hi.n + lo.n]

\* vexutils.ZExtTo(size, bv): zero-extension up to size bits
ZExtTo(size, bv) == IF bv.n >= size THEN bv ELSE [v |-> bv.v, n |-> size]

\* bv.sign_extend(k)
SignExtend(k, bv) ==
    IF bv.n > 0 /\ bv.v >= Pow2(bv.n - 1)
    THEN [v |-> bv.v + (Pow2(k) - 1) * Pow2(bv.n), n |-> bv.n + k]
    ELSE [v |-> bv.v, n |-> bv.n + k]

\* cleanval.model.signed
Signed(bv) == IF bv.n > 0 /\ bv.v >= Pow2(bv.n - 1) THEN bv.v - Pow2(bv.n) ELSE bv.v

RECURSIVE BitOp(_, _, _, _)
BitOp(op, a, b, n) ==
    IF n = 0 THEN 0
    ELSE LET x == a % 2
             y == b % 2
             z == CASE op = "Iop_And" -> IF x = 1 /\ y = 1 THEN 1 ELSE 0
                    [] op = "Iop_Or"  -> IF x = 1 \/ y = 1 THEN 1 ELSE 0
                    [] OTHER          -> IF x # y THEN 1 ELSE 0
         IN z + 2 * BitOp(op, a \div 2, b \div 2, n - 1)

(***************************************************************************)
(* VEX types: [k |-> "I" | "F", n |-> bits].  'F' in ty is ty.k = "F",     *)
(* vexutils.extract_int(ty) is ty.n.                                       *)
(***************************************************************************)
Ity(n) == [k |-> "I", n |-> n]
Fty(n) == [k |-> "F", n |-> n]
IsF(ty) == ty.k = "F"
extract_int(ty) == ty.n

(***************************************************************************)
(* The inputs of one construction of StructureAnalysis.                    *)
(*   project : the architecture descriptor, the lifter's answers and the   *)
(*             loader's initialized data                                   *)
(*   cfg     : the recovered control-flow graph and function registry      *)
(*   functions_list, chase_structs : the constructor's arguments           *)
(* The program's own state.                                                *)
(*   structures, stack_frames : the results of the driver                  *)
(*   pc, idx   : the constructor's position, and the driver's in the list  *)
(*   run       : the locals of the running analyze_stack                   *)
(*   blockstate: the BlockState being interpreted                          *)
(*   exc       : the exception being propagated, "" when none              *)
(*   nstructs  : how many Struct objects have been created                 *)
(*   earlier   : what earlier constructions on the same binary delivered   *)
(***************************************************************************)
VARIABLES project, cfg, functions_list, chase_structs,
          structures, stack_frames, pc, idx, run, blockstate, exc,
          nstructs, earlier

vars == <<project, cfg, functions_list, chase_structs,
          structures, stack_frames, pc, idx, run, blockstate, exc,
          nstructs, earlier>>

arch == project.arch

(***************************************************************************)
(* Expression nodes.  taints is the defaultdict(bool) of the source with   *)
(* its three keys; a missing 'pointer' is the empty string.                *)
(***************************************************************************)
NoTaints == [pointer |-> "", concrete |-> FALSE, it |-> FALSE]

\* vexutils.make_default_value(ty)
make_default_value(ty) == [v |-> 0, n |-> ty.n]

\* ConstExpression.__init__
ConstExpression(val, ty, concrete) ==
    [cls |-> "Const", size |-> val.n, type |-> ty, cleanval |-> val,
     deps |-> <<>>, taints |-> [NoTaints EXCEPT !.concrete = concrete],
     rootval |-> FALSE, addr |-> NoAddr, path |-> <<>>]

\* ConstExpression.default
ConstDefault(ty) == ConstExpression(make_default_value(ty), ty, FALSE)

\* the fields SmartExpression.__init__ sets before it looks at the tag
FreshExpression(vexpression, addr, path) ==
    [cls |-> "Smart", size |-> vexpression.ty.n, type |-> vexpression.ty,
     cleanval |-> make_default_value(vexpression.ty),
     deps |-> <<>>, taints |-> NoTaints,
     rootval |-> FALSE, addr |-> addr, path |-> path]

\* SmartExpression.copy_to_self: size and type stay those of self
copy_to_self(self, other) ==
    [self EXCEPT !.cleanval = other.cleanval, !.deps = other.deps,
                 !.addr = other.addr, !.taints = other.taints,
                 !.rootval = other.rootval, !.path = other.path]

\* a truncate whose result keeps the taints of the node it narrows
truncate_keeps_taints(self, ty) ==
    IF ty = self.type THEN self
    ELSE IF extract_int(ty) > self.size THEN self
    ELSE [cls |-> "Custom", size |-> extract_int(ty), type |-> ty,
          cleanval |-> Extract(extract_int(ty) - 1, 0, self.cleanval),
          deps |-> <<self>>,
          taints |-> self.taints,
          rootval |-> FALSE, addr |-> self.addr, path |-> self.path]

\* SmartExpression.truncate and ConstExpression.truncate
truncate(self, ty) ==
    IF ty = self.type THEN self
    ELSE IF extract_int(ty) > self.size THEN self
    ELSE IF self.cls = "Const"
    THEN ConstExpression(Extract(extract_int(ty) - 1, 0, self.cleanval), ty,
                         self.taints.concrete)
    ELSE [cls |-> "Custom", size |-> extract_int(ty), type |-> ty,
          cleanval |-> Extract(extract_int(ty) - 1, 0, self.cleanval),
          deps |-> <<self>>,
          taints |-> [NoTaints EXCEPT !.concrete = self.taints.concrete],
          rootval |-> FALSE, addr |-> self.addr, path |-> self.path]

\* truncate raises ValueError("Cannot coerce floating point values")
truncate_raises(self, ty) == ty # self.type /\ IsF(self.type)

\* an overwrite that zero-extends self and forgets the high bits of other
overwrite_zero_extends(self, other) ==
    IF self.size >= other.size THEN self
    ELSE [cls |-> "Custom", size |-> other.size, type |-> other.type,
          cleanval |-> Concat(BVV(0, other.size - self.size), self.cleanval),
          deps |-> <<self, other>>,
          taints |-> [pointer |-> other.taints.pointer,
                      concrete |-> other.taints.concrete /\ self.taints.concrete,
                      it |-> FALSE],
          rootval |-> FALSE, addr |-> self.addr, path |-> self.path]

\* an overwrite that takes the concreteness of other alone
overwrite_wide_concrete(self, other) ==
    IF self.size >= other.size THEN self
    ELSE [cls |-> "Custom", size |-> other.size, type |-> other.type,
          cleanval |-> Concat(Extract(other.size - 1, self.size, other.cleanval),
                              self.cleanval),
          deps |-> <<self, other>>,
          taints |-> [pointer |-> other.taints.pointer,
                      concrete |-> other.taints.concrete,
                      it |-> FALSE],
          rootval |-> FALSE, addr |-> self.addr, path |-> self.path]

\* SmartExpression.overwrite: self is written over other
overwrite(self, other) ==
    IF self.size >= other.size THEN self
    ELSE [cls |-> "Custom", size |-> other.size, type |-> other.type,
          cleanval |-> Concat(Extract(other.size - 1, self.size, other.cleanval),
                              self.cleanval),
          deps |-> <<self, other>>,
          taints |-> [pointer |-> other.taints.pointer,
                      concrete |-> other.taints.concrete /\ self.taints.concrete,
                      it |-> FALSE],
          rootval |-> FALSE, addr |-> self.addr, path |-> self.path]

\* SmartExpression.shield_constants; whitelist is a set of 0-based indices
shield_constants(expr_list, whitelist) ==
    [i \in DOMAIN expr_list |->
        IF (i - 1) \in whitelist /\ expr_list[i].rootval
        THEN ConstExpression(expr_list[i].cleanval, expr_list[i].type,
                             expr_list[i].taints.concrete)
        ELSE expr_list[i]]

\* make_bindata_internal: the literal-root leaves, left to right
RECURSIVE make_bindata_internal(_)
RECURSIVE bindata_of_deps(_, _)
make_bindata_internal(self) ==
    IF self.rootval
    THEN <<[addr |-> self.addr, path |-> self.path \o <<"con", "value">>,
            value |-> self.cleanval.v]>>
    ELSE bindata_of_deps(self.deps, 1)
bindata_of_deps(deps, i) ==
    IF i > Len(deps) THEN <<>>
    ELSE make_bindata_internal(deps[i]) \o bindata_of_deps(deps, i + 1)

\* SmartExpression.make_bindata: the BinaryDataConglomerate of a tag
make_bindata(self, flags) ==
    [addr |-> self.addr, value |-> Signed(self.cleanval), flags |-> flags,
     locs |-> make_bindata_internal(self)]

\* class AccessType
AccessType == [READ |-> 1, WRITE |-> 2, POINTER |-> 4, UNINITREAD |-> 8]

(***************************************************************************)
(* BlockState: [addr, taint_region, tempstore, tyenv, regs, mem_regions,   *)
(* tags].  regs maps register offsets to nodes; mem_regions maps           *)
(* <<region, cleanval>> to nodes; tempstore is TempStore.storage (None     *)
(* before load_tempstore is the empty storage with hasTemps FALSE).        *)
(***************************************************************************)
Put1(f, k, v) == [x \in DOMAIN f \cup {k} |-> IF x = k THEN v ELSE f[x]]

EmptyMap == [x \in {} |-> x]

\* the registers BlockState.__init__ pre-seeds for the architecture
SeedRegs ==
    CASE arch.name = "AMD64" ->
           (144 :> ConstDefault(Ity(ArchBits)) @@ 156 :> ConstDefault(Ity(ArchBits)))
      [] arch.name = "X86" ->
           (216 :> ConstDefault(Ity(ArchBits)) @@ 884 :> ConstDefault(Ity(ArchBits)))
      [] arch.name = "ARMEL" ->
           (arch.itstate :>
              [ConstDefault(Ity(ArchBits)) EXCEPT !.taints.it = TRUE])
      [] OTHER -> EmptyMap

\* BlockState.__init__
BlockState(addr, taint_region) ==
    [addr |-> addr, taint_region |-> taint_region,
     hasTemps |-> FALSE, tempstore |-> EmptyMap, tyenv |-> <<>>,
     regs |-> SeedRegs, mem_regions |-> EmptyMap, tags |-> <<>>]

\* a copy that carries every register across the edge
copy_keeps_all(self, newaddr) ==
    LET out == BlockState(newaddr, self.taint_region)
    IN [out EXCEPT !.regs =
           [o \in DOMAIN out.regs \cup DOMAIN self.regs |->
               IF o \in DOMAIN self.regs THEN self.regs[o] ELSE out.regs[o]]]

\* a copy that takes the memory map and the tag log along
copy_keeps_memory(self, newaddr) ==
    LET out == BlockState(newaddr, self.taint_region)
        kept == {o \in DOMAIN self.regs : self.regs[o].taints.pointer # ""}
    IN [out EXCEPT !.regs =
           [o \in DOMAIN out.regs \cup kept |->
               IF o \in kept THEN self.regs[o] ELSE out.regs[o]],
                   !.mem_regions = self.mem_regions, !.tags = self.tags]

\* BlockState.copy: only the registers whose value has a pointer taint
copy(self, newaddr) ==
    LET out == BlockState(newaddr, self.taint_region)
        kept == {o \in DOMAIN self.regs : self.regs[o].taints.pointer # ""}
    IN [out EXCEPT !.regs =
           [o \in DOMAIN out.regs \cup kept |->
               IF o \in kept THEN self.regs[o] ELSE out.regs[o]]]

\* a load_tempstore that keeps the temporaries of the instruction before
load_tempstore_keeps(self, tyenv) ==
    [self EXCEPT !.hasTemps = TRUE, !.tyenv = tyenv]

\* BlockState.load_tempstore(TempStore(tyenv))
load_tempstore(self, tyenv) ==
    [self EXCEPT !.hasTemps = TRUE, !.tempstore = EmptyMap, !.tyenv = tyenv]

\* BlockState.get_reg: the node read, and the state with the default it stored
get_reg(self, regnum, ty) ==
    IF regnum \notin DOMAIN self.regs
    THEN LET d == IF IsF(ty) \/ extract_int(ty) > arch.bits
                  THEN ConstDefault(ty)
                  ELSE ConstDefault(Ity(arch.bits))
         IN [node |-> truncate(d, ty),
             bs |-> [self EXCEPT !.regs = Put1(self.regs, regnum, d)]]
    ELSE IF IsF(self.regs[regnum].type)
    THEN IF self.regs[regnum].type # ty
         THEN [node |-> ConstDefault(ty),
               bs |-> [self EXCEPT !.regs = Put1(self.regs, regnum, ConstDefault(ty))]]
         ELSE [node |-> self.regs[regnum], bs |-> self]
    ELSE [node |-> truncate(self.regs[regnum], ty), bs |-> self]

\* BlockState.get_mem
get_mem(self, addr, ty) ==
    IF addr.taints.pointer # ""
    THEN LET key == <<addr.taints.pointer, addr.cleanval>>
         IN IF key \in DOMAIN self.mem_regions /\ self.mem_regions[key].type = ty
            THEN self.mem_regions[key]
            ELSE ConstDefault(ty)
    ELSE IF addr.cleanval.v \in DOMAIN project.memory /\ ~IsF(ty)
    THEN ConstExpression(BVV(project.memory[addr.cleanval.v], (extract_int(ty) \div 8) * 8),
                         ty, TRUE)
    ELSE ConstDefault(ty)

\* an access that tags an address of any region
access_any_region(self, addr_expression, access_type) ==
    IF addr_expression.taints.pointer = ""
    THEN self
    ELSE [self EXCEPT !.tags =
             Append(@, <<"ACCESS", make_bindata(addr_expression, access_type)>>)]

\* BlockState.access
access(self, addr_expression, access_type) ==
    IF addr_expression.taints.pointer # self.taint_region
    THEN self
    ELSE [self EXCEPT !.tags =
             Append(@, <<"ACCESS", make_bindata(addr_expression, access_type)>>)]

\* TempStore.write: "ValueError" when the type is not the declared one
tempstore_write_raises(self, tmp, value) ==
    tmp + 1 \notin DOMAIN self.tyenv \/ value.type # self.tyenv[tmp + 1]

tempstore_write(self, tmp, value) ==
    [self EXCEPT !.tempstore =
        Put1(@, tmp, [value EXCEPT !.cleanval =
                         ZExtTo(extract_int(self.tyenv[tmp + 1]), value.cleanval)])]

\* TempStore.default
tempstore_default(self, tmp) ==
    tempstore_write(self, tmp, ConstDefault(self.tyenv[tmp + 1]))

(***************************************************************************)
(* The symbolic-value engine's opcode table (simuvex.operations).  An      *)
(* opcode is [base, sfx]: 'Iop_Add32' is ["Iop_Add", "32"].                *)
(***************************************************************************)
operations == {"Iop_Add", "Iop_Sub", "Iop_And", "Iop_Or", "Iop_Xor", "Iop_Mul",
               "Iop_Not", "Iop_DivModU"}

\* the opcodes whose semantics raise SimOperationError
RaisesSimOperationError(op) == op.base = "Iop_DivModU"

\* ROUNDING_IROPS, as far as the modelled opcodes go
ROUNDING_IROPS == {[base |-> "Iop_Add", sfx |-> "F64"], [base |-> "Iop_Sub", sfx |-> "F64"],
                   [base |-> "Iop_Mul", sfx |-> "F64"]}

\* operations[op].calculate(*args)
calculate(op, a) ==
    LET n == a[1].n
    IN CASE op.base = "Iop_Add" -> BVV(a[1].v + a[2].v, n)
         [] op.base = "Iop_Sub" -> BVV(a[1].v - a[2].v + Pow2(n), n)
         [] op.base = "Iop_Mul" -> BVV(a[1].v * a[2].v, n)
         [] op.base = "Iop_Not" -> BVV(Pow2(n) - 1 - a[1].v, n)
         [] OTHER -> BVV(BitOp(op.base, a[1].v, a[2].v, n), n)

\* the region taint of an n-ary node (SmartExpression.__init__, 515-523)
OpPointerTaint(op, deps) ==
    IF op.base \in {"Iop_Add", "Iop_And", "Iop_Or", "Iop_Xor"}
    THEN LET t1 == deps[1].taints.pointer
             t2 == deps[2].taints.pointer
         IN IF t1 # "" \/ t2 # ""
            THEN (IF t1 # "" /\ t2 # "" THEN (IF t1 = t2 THEN t1 ELSE "") ELSE
                  IF t1 # "" THEN t1 ELSE "")
            ELSE ""
    ELSE IF op.base = "Iop_Sub"
    THEN LET t1 == deps[1].taints.pointer
             t2 == deps[2].taints.pointer
         IN IF t1 # "" /\ t2 = "" THEN t1 ELSE ""
    ELSE ""

(***************************************************************************)
(* SmartExpression.__init__: the node built for a VEX expression, the      *)
(* BlockState after the side effects of building it (defaulted registers,  *)
(* READ tags of the loads in it), and the exception it raised ("" when     *)
(* none).                                                                  *)
(***************************************************************************)
Built(node, bs) == [node |-> node, bs |-> bs, exc |-> ""]
Raised(e, bs) == [node |-> ConstDefault(Ity(ArchBits)), bs |-> bs, exc |-> e]

ExprTags == {"Iex_Get", "Iex_RdTmp", "Iex_Load", "Iex_Const", "Iex_ITE",
             "Iex_Unop", "Iex_Binop", "Iex_Triop", "Iex_Qop", "Iex_CCall", "Iex_GetI"}
IsIco(vexpression) == vexpression.tag \in {"Ico_U8", "Ico_U16", "Ico_F32", "Ico_F64"}

RECURSIVE SmartExpression(_, _, _, _)
RECURSIVE BuildArgs(_, _, _, _, _)

\* the loop over vexpression.args: the nodes built, in order
BuildArgs(bs, args, addr, path, i) ==
    IF i > Len(args) THEN [nodes |-> <<>>, bs |-> bs, exc |-> ""]
    ELSE LET a == SmartExpression(bs, args[i], addr, path \o <<"args", ToString(i - 1)>>)
         IN IF a.exc # "" THEN [nodes |-> <<>>, bs |-> a.bs, exc |-> a.exc]
            ELSE LET rest == BuildArgs(a.bs, args, addr, path, i + 1)
                 IN [nodes |-> <<a.node>> \o rest.nodes, bs |-> rest.bs, exc |-> rest.exc]

\* an operator node that stays as concrete as its arguments when its
\* evaluation fails
OpNodeStaysConcrete(self, op, args) ==
    LET conc == \A i \in DOMAIN args : args[i].taints.concrete
        it == \E i \in DOMAIN args : args[i].taints.it
        d1 == IF op.base \in {"Iop_Mul", "Iop_And"}
              THEN shield_constants(args, 0 .. Len(args)) ELSE args
        deps == IF op \in ROUNDING_IROPS THEN shield_constants(d1, {0}) ELSE d1
    IN IF op.base \notin operations \/ RaisesSimOperationError(op)
       THEN [self EXCEPT !.deps = deps,
                         !.taints = [pointer |-> "", concrete |-> conc, it |-> it]]
       ELSE [self EXCEPT !.deps = deps,
                         !.cleanval = calculate(op, [i \in DOMAIN deps |-> deps[i].cleanval]),
                         !.taints = [pointer |-> OpPointerTaint(op, deps),
                                     concrete |-> conc, it |-> it]]

\* the n-ary operator node, built from its argument nodes (501-529)
OpNode(self, op, args) ==
    LET conc == \A i \in DOMAIN args : args[i].taints.concrete
        it == \E i \in DOMAIN args : args[i].taints.it
        d1 == IF op.base \in {"Iop_Mul", "Iop_And"}
              THEN shield_constants(args, 0 .. Len(args)) ELSE args
        deps == IF op \in ROUNDING_IROPS THEN shield_constants(d1, {0}) ELSE d1
    IN IF op.base \notin operations \/ RaisesSimOperationError(op)
       THEN [self EXCEPT !.deps = deps,
                         !.taints = [pointer |-> "", concrete |-> FALSE, it |-> it]]
       ELSE [self EXCEPT !.deps = deps,
                         !.cleanval = calculate(op, [i \in DOMAIN deps |-> deps[i].cleanval]),
                         !.taints = [pointer |-> OpPointerTaint(op, deps),
                                     concrete |-> conc, it |-> it]]

\* the ternary select node (490-500)
IteNode(self, false_expr, truth_expr, cond_expr) ==
    LET c == copy_to_self(self, IF truth_expr.taints.pointer # "" THEN truth_expr
                                ELSE false_expr)
    IN [c EXCEPT !.taints.concrete =
                    IF ~cond_expr.taints.it
                    THEN false_expr.taints.concrete /\ truth_expr.taints.concrete
                    ELSE @,
                 !.taints.it = false_expr.taints.it \/ truth_expr.taints.it]

SmartExpression(bs, vexpression, addr, path) ==
    LET self == FreshExpression(vexpression, addr, path)
    IN CASE vexpression.tag = "Iex_Get" ->
              LET r == get_reg(bs, vexpression.offset, self.type)
              IN Built(copy_to_self(self, r.node), r.bs)
         [] vexpression.tag = "Iex_RdTmp" ->
              IF vexpression.tmp \notin DOMAIN bs.tempstore
              THEN Raised("ValueError", bs)
              ELSE Built(copy_to_self(self, bs.tempstore[vexpression.tmp]), bs)
         [] vexpression.tag = "Iex_Load" ->
              LET a == SmartExpression(bs, vexpression.addr, addr, path \o <<"addr">>)
              IN IF a.exc # "" THEN a
                 ELSE LET bs2 == access(a.bs, a.node, AccessType.READ)
                      IN Built(copy_to_self(self, get_mem(bs2, a.node, self.type)), bs2)
         [] vexpression.tag = "Iex_Const" \/ IsIco(vexpression) ->
              IF IsF(self.type) /\ self.size \notin {32, 64}
              THEN Raised("FidgetUnsupportedError", bs)
              ELSE IF addr = NoAddr
              THEN Raised("TypeError", bs)
              ELSE Built([self EXCEPT
                            !.cleanval = [v |-> vexpression.value, n |-> self.size],
                            !.rootval = TRUE, !.taints.concrete = TRUE], bs)
         [] vexpression.tag = "Iex_ITE" ->
              LET f == SmartExpression(bs, vexpression.iffalse, addr, path \o <<"iffalse">>)
              IN IF f.exc # "" THEN f
                 ELSE LET t == SmartExpression(f.bs, vexpression.iftrue, addr,
                                               path \o <<"iftrue">>)
                      IN IF t.exc # "" THEN t
                         ELSE LET c == SmartExpression(t.bs, vexpression.cond, addr,
                                                       path \o <<"cond">>)
                              IN IF c.exc # "" THEN c
                                 ELSE Built(IteNode(self, f.node, t.node, c.node), c.bs)
         [] vexpression.tag \in {"Iex_Unop", "Iex_Binop", "Iex_Triop", "Iex_Qop"} ->
              LET a == BuildArgs(bs, vexpression.args, addr, path, 1)
              IN IF a.exc # "" THEN Raised(a.exc, a.bs)
                 ELSE Built(OpNode(self, vexpression.op, a.nodes), a.bs)
         [] vexpression.tag = "Iex_CCall" ->
              LET a == BuildArgs(bs, vexpression.args, addr, path, 1)
              IN IF a.exc # "" THEN Raised(a.exc, a.bs)
                 ELSE Built([self EXCEPT !.taints.it =
                                \E i \in DOMAIN a.nodes : a.nodes[i].taints.it], a.bs)
         [] vexpression.tag = "Iex_GetI" -> Built(self, bs)
         [] OTHER -> Raised("FidgetUnsupportedError", bs)

(***************************************************************************)
(* BlockState.assign and the statement dispatch of analyze_stack.  Each    *)
(* gives the BlockState after the statement and the exception raised.      *)
(***************************************************************************)
Went(bs) == [bs |-> bs, exc |-> ""]
Threw(e, bs) == [bs |-> bs, exc |-> e]

\* the marker of an absent temporary in Ist_CAS and Ist_Dirty (4294967295)
IRTemp_INVALID == -1

\* an assign that takes a stack pointer of zero for no allocation
AllocTagsSkipZero(self, expression) ==
    IF expression.cleanval.v = 0
    THEN self.tags
    ELSE Append(self.tags, <<"ALLOC", make_bindata(expression, 0)>>)

\* the ALLOC tag of a stack-pointer write (428-435)
AllocTags(self, expression) ==
    IF expression.cleanval.v = 0
    THEN Append(self.tags, <<"ALLOC", make_bindata(expression, 0)>>)
    ELSE Append(self.tags, <<"ALLOC", make_bindata(expression, 0)>>)

\* 'stack' in self.taint_region: the names Struct gives to stack frames
IsStackRegion(name) == name # ""

\* an assign that takes any stack-pointer write for an allocation
assign_put_unchecked(self, vextatement, expression) ==
    LET off == vextatement.offset
        old == IF off \in DOMAIN self.regs THEN self.regs[off]
               ELSE ConstDefault(Ity(arch.bits))
        s1 == [self EXCEPT !.regs = Put1(self.regs, off, overwrite(expression, old))]
    IN IF off = arch.sp_offset /\ IsStackRegion(self.taint_region)
       THEN Went([s1 EXCEPT !.tags = AllocTags(s1, expression)])
       ELSE Went(s1)

\* the Ist_Put branch of assign (421-435)
assign_put(self, vextatement, expression) ==
    LET off == vextatement.offset
        regs1 == IF IsF(expression.type) \/ expression.size > arch.bits
                 THEN Put1(self.regs, off, expression)
                 ELSE LET old == IF off \in DOMAIN self.regs THEN self.regs[off]
                                 ELSE ConstDefault(Ity(arch.bits))
                      IN Put1(self.regs, off, overwrite(expression, old))
        s1 == [self EXCEPT !.regs = regs1]
    IN IF off = arch.sp_offset /\ IsStackRegion(self.taint_region)
       THEN IF ~expression.taints.concrete
            THEN Threw("FidgetAnalysisFailure", s1)
            ELSE Went([s1 EXCEPT !.tags = AllocTags(s1, expression)])
       ELSE Went(s1)

\* a store to the address node a: the WRITE tag, the memory map and the
\* POINTER tag of a stored pointer (438-442)
StoreAt(a, expression) ==
    IF a.exc # "" THEN Threw(a.exc, a.bs)
    ELSE LET s1 == access(a.bs, a.node, AccessType.WRITE)
             s2 == IF a.node.taints.pointer # ""
                   THEN [s1 EXCEPT !.mem_regions =
                            Put1(@, <<a.node.taints.pointer, a.node.cleanval>>, expression)]
                   ELSE s1
         IN Went(IF expression.taints.pointer # ""
                 THEN access(s2, expression, AccessType.POINTER)
                 ELSE s2)

\* the Ist_Store branch of assign (436-442)
assign_store(self, vextatement, expression, stmt_idx) ==
    StoreAt(SmartExpression(self, vextatement.addr, expression.addr,
                            <<"statements", ToString(stmt_idx), "addr">>),
            expression)

\* an assign that takes a write of any register for an allocation
assign_alloc_every_put(self, vextatement, expression, stmt_idx) ==
    CASE vextatement.tag = "Ist_WrTmp" ->
           IF tempstore_write_raises(self, vextatement.tmp, expression)
           THEN Threw("ValueError", self)
           ELSE Went(tempstore_write(self, vextatement.tmp, expression))
      [] vextatement.tag = "Ist_Put" ->
           LET r == assign_put(self, vextatement, expression)
           IN IF r.exc = "" /\ vextatement.offset # arch.sp_offset
              THEN Went([r.bs EXCEPT !.tags = AllocTags(r.bs, expression)])
              ELSE r
      [] vextatement.tag = "Ist_Store" ->
           assign_store(self, vextatement, expression, stmt_idx)
      [] OTHER -> Went(self)

\* BlockState.assign
assign(self, vextatement, expression, stmt_idx) ==
    CASE vextatement.tag = "Ist_WrTmp" ->
           IF tempstore_write_raises(self, vextatement.tmp, expression)
           THEN Threw("ValueError", self)
           ELSE Went(tempstore_write(self, vextatement.tmp, expression))
      [] vextatement.tag = "Ist_Put" -> assign_put(self, vextatement, expression)
      [] vextatement.tag = "Ist_Store" ->
           assign_store(self, vextatement, expression, stmt_idx)
      [] OTHER -> Went(self)

\* the converted value a conditional load writes to its temporary (216-228)
LoadGValue(data_expression, stmt) ==
    LET conv_diff == extract_int(stmt.cvt_types[2]) - extract_int(stmt.cvt_types[1])
        val == IF conv_diff = 0 THEN data_expression.cleanval
               ELSE IF stmt.cvt_signed THEN SignExtend(conv_diff, data_expression.cleanval)
               ELSE [v |-> data_expression.cleanval.v,
                     n |-> data_expression.cleanval.n + conv_diff]
    IN [data_expression EXCEPT !.cls = "Custom", !.type = stmt.cvt_types[2],
                               !.size = extract_int(stmt.cvt_types[2]),
                               !.cleanval = val]

\* the outcome of an expression that is built for its side effects only
Visited(e) == Threw(e.exc, e.bs)

\* Ist_LoadG, after its address is built (213-232)
LoadGVisit(g, stmt, addr, path) ==
    IF g.exc # "" THEN Threw(g.exc, g.bs)
    ELSE Visited(SmartExpression(g.bs, stmt.alt, addr, path \o <<"alt">>))

LoadGWrite(s1, cvt, stmt, addr, path) ==
    IF tempstore_write_raises(s1, stmt.dst, cvt) THEN Threw("ValueError", s1)
    ELSE LoadGVisit(SmartExpression(tempstore_write(s1, stmt.dst, cvt), stmt.guard, addr,
                                    path \o <<"guard">>),
                    stmt, addr, path)

LoadGRead(s1, a, stmt, addr, path) ==
    LoadGWrite(s1, LoadGValue(get_mem(s1, a.node, stmt.cvt_types[1]), stmt), stmt, addr, path)

LoadGAt(a, stmt, addr, path) ==
    IF a.exc # "" THEN Threw(a.exc, a.bs)
    ELSE LoadGRead(access(a.bs, a.node, AccessType.READ), a, stmt, addr, path)

\* a conditional load that loads only when its guard is not a literal zero,
\* and writes the alternative otherwise
LoadGAlt(alt, stmt) ==
    IF alt.exc # "" THEN Threw(alt.exc, alt.bs)
    ELSE IF tempstore_write_raises(alt.bs, stmt.dst, alt.node) THEN Threw("ValueError", alt.bs)
    ELSE Went(tempstore_write(alt.bs, stmt.dst, alt.node))

stmt_LoadG_guarded(bs, stmt, addr, path) ==
    IF stmt.guard.tag = "Iex_Const" /\ stmt.guard.value = 0
    THEN LoadGAlt(SmartExpression(bs, stmt.alt, addr, path \o <<"alt">>), stmt)
    ELSE LoadGAt(SmartExpression(bs, stmt.addr, addr, path \o <<"addr">>), stmt, addr, path)

\* Ist_LoadG (210-232)
stmt_LoadG(bs, stmt, addr, path) ==
    LoadGAt(SmartExpression(bs, stmt.addr, addr, path \o <<"addr">>), stmt, addr, path)

\* Ist_StoreG, after its address and its value are built (238-244)
StoreGTag(s1, a, v, stmt, addr, path, struct_name) ==
    LET s2 == IF a.node.taints.pointer # ""
              THEN [s1 EXCEPT !.mem_regions =
                      Put1(@, <<a.node.taints.pointer, a.node.cleanval>>, v.node)]
              ELSE s1
        s3 == IF v.node.taints.pointer = struct_name
              THEN access(s2, v.node, AccessType.POINTER)
              ELSE s2
    IN Visited(SmartExpression(s3, stmt.guard, addr, path \o <<"guard">>))

StoreGValue(a, v, stmt, addr, path, struct_name) ==
    IF v.exc # "" THEN Threw(v.exc, v.bs)
    ELSE StoreGTag(access(v.bs, a.node, AccessType.WRITE), a, v, stmt, addr, path,
                   struct_name)

StoreGAt(a, stmt, addr, path, struct_name) ==
    IF a.exc # "" THEN Threw(a.exc, a.bs)
    ELSE StoreGValue(a, SmartExpression(a.bs, stmt.data, addr, path \o <<"data">>),
                     stmt, addr, path, struct_name)

\* Ist_StoreG (234-244)
stmt_StoreG(bs, stmt, addr, path, struct_name) ==
    StoreGAt(SmartExpression(bs, stmt.addr, addr, path \o <<"addr">>), stmt, addr, path,
             struct_name)

\* the temporaries Ist_CAS and Ist_Dirty default (248-255)
DefaultTemps(bs, tmps, i) ==
    LET RECURSIVE go(_, _)
        go(s, k) == IF k > Len(tmps) THEN s
                    ELSE IF tmps[k] = IRTemp_INVALID THEN go(s, k + 1)
                    ELSE go(tempstore_default(s, tmps[k]), k + 1)
    IN go(bs, i)

\* blockstate.assign(stmt, this_expression, stmt_idx), once the data is built
AssignBuilt(e, stmt, stmt_idx) ==
    IF e.exc # "" THEN Threw(e.exc, e.bs) ELSE assign(e.bs, stmt, e.node, stmt_idx)

\* one statement of an instruction (197-257)
InterpretStatement(bs, stmt, addr, stmt_idx, struct_name) ==
    CASE stmt.tag \in {"Ist_NoOp", "Ist_AbiHint", "Ist_MBE"} -> Went(bs)
      [] stmt.tag = "Ist_Exit" ->
           Visited(SmartExpression(bs, stmt.dst, addr,
                                   <<"statements", ToString(stmt_idx), "dst">>))
      [] stmt.tag \in {"Ist_WrTmp", "Ist_Store", "Ist_Put"} ->
           AssignBuilt(SmartExpression(bs, stmt.data, addr,
                                       <<"statements", ToString(stmt_idx), "data">>),
                       stmt, stmt_idx)
      [] stmt.tag = "Ist_LoadG" ->
           stmt_LoadG(bs, stmt, addr, <<"statements", ToString(stmt_idx)>>)
      [] stmt.tag = "Ist_StoreG" ->
           stmt_StoreG(bs, stmt, addr, <<"statements", ToString(stmt_idx)>>, struct_name)
      [] stmt.tag = "Ist_PutI" ->
           Visited(SmartExpression(bs, stmt.data, addr,
                                   <<"statements", ToString(stmt_idx), "data">>))
      [] stmt.tag = "Ist_CAS" -> Went(DefaultTemps(bs, <<stmt.oldLo, stmt.oldHi>>, 1))
      [] stmt.tag = "Ist_Dirty" -> Went(DefaultTemps(bs, <<stmt.tmp>>, 1))
      [] OTHER -> Threw("FidgetUnsupportedError", bs)

(***************************************************************************)
(* The lifter and the CFG, as analyze_stack consults them.                 *)
(*   project.code  : address -> [stmts, tyenv, jk, nodecode], one entry    *)
(*                   per instruction; jk is "" when the instruction does   *)
(*                   not end a block                                       *)
(*   cfg.nodes     : address -> [simprocedure_name, succs], succs a set    *)
(*                   of [addr, jumpkind]                                   *)
(*   cfg.functions : the keys of cfg.function_manager.functions            *)
(*   cfg.order     : the order in which the graph enumerates edges         *)
(***************************************************************************)
OK_CONTINUE_JUMPS == {"Ijk_FakeRet", "Ijk_Boring", "Ijk_Sys_int128", "Ijk_SigTRAP",
                      "Ijk_Sys_syscall"}

\* the size cap of one lifted block (max_size=400), in instructions
max_size == 400

\* blockstate.lift(): the instruction boundaries and the terminator kind of
\* the block at addr; ok is FALSE for AngrMemoryError
RECURSIVE LiftMarks(_, _)
LiftMarks(a, n) ==
    IF a \notin DOMAIN project.code THEN [marks |-> <<>>, jumpkind |-> "Ijk_Boring"]
    ELSE IF project.code[a].nodecode THEN [marks |-> <<a>>, jumpkind |-> "Ijk_NoDecode"]
    ELSE IF project.code[a].jk # "" THEN [marks |-> <<a>>, jumpkind |-> project.code[a].jk]
    ELSE IF n + 1 >= max_size THEN [marks |-> <<a>>, jumpkind |-> "Ijk_Boring"]
    ELSE LET rest == LiftMarks(a + 1, n + 1)
         IN [marks |-> <<a>> \o rest.marks, jumpkind |-> rest.jumpkind]

lift(addr) ==
    IF addr \notin DOMAIN project.code
    THEN [ok |-> FALSE, marks |-> <<>>, jumpkind |-> ""]
    ELSE LET b == LiftMarks(addr, 0)
         IN [ok |-> TRUE, marks |-> b.marks, jumpkind |-> b.jumpkind]

\* mark_addrs of a lifted block (174-181)
MarkAddrs(block) ==
    IF block.jumpkind = "Ijk_NoDecode"
    THEN SubSeq(block.marks, 1, Len(block.marks) - 1)
    ELSE block.marks

\* a set of edges as the sequence the graph enumerates
RECURSIVE Enumerate(_, _)
Enumerate(edges, order) ==
    IF edges = {} THEN <<>>
    ELSE LET e == CHOOSE x \in edges :
                     \A y \in edges : IF order = "asc" THEN x.addr <= y.addr
                                      ELSE x.addr >= y.addr
         IN <<e>> \o Enumerate(edges \ {e}, order)

\* cfg.get_successors_and_jumpkind(node, excluding_fakeret=False), for the
\* nodes cfg.get_all_nodes(addr) gives
get_successors_and_jumpkind(addr) ==
    IF addr \in DOMAIN cfg.nodes THEN Enumerate(cfg.nodes[addr].succs, cfg.order)
    ELSE <<>>

simprocedure_name(addr) == cfg.nodes[addr].simprocedure_name

\* the inner loop of the catch-up (280-282)
RECURSIVE CatchUp(_, _, _, _)
CatchUp(bs, edges, cache, i) ==
    IF i > Len(edges) THEN <<>>
    ELSE (IF edges[i].jumpkind \in OK_CONTINUE_JUMPS /\ edges[i].addr \notin cache
             /\ simprocedure_name(edges[i].addr) = ""
          THEN <<copy(bs, edges[i].addr)>> ELSE <<>>)
         \o CatchUp(bs, edges, cache, i + 1)

\* a successor loop that follows every edge of the graph, whatever its kind
RECURSIVE SuccessorsAnyEdge(_, _, _, _, _)
SuccessorsAnyEdge(bs, edges, headcache, cache, i) ==
    IF i > Len(edges) THEN <<>>
    ELSE LET node == edges[i]
             these ==
               IF node.addr \in headcache THEN <<>>
               ELSE IF simprocedure_name(node.addr) # "" THEN <<>>
               ELSE IF node.addr \in cache
               THEN CatchUp(bs, get_successors_and_jumpkind(node.addr), cache, 1)
               ELSE <<copy(bs, node.addr)>>
         IN these \o SuccessorsAnyEdge(bs, edges, headcache, cache, i + 1)

\* the states the successor loop appends to the queue (269-284)
RECURSIVE Successors(_, _, _, _, _)
Successors(bs, edges, headcache, cache, i) ==
    IF i > Len(edges) THEN <<>>
    ELSE LET node == edges[i]
             these ==
               IF node.jumpkind \notin OK_CONTINUE_JUMPS THEN <<>>
               ELSE IF node.addr \in headcache THEN <<>>
               ELSE IF simprocedure_name(node.addr) # "" THEN <<>>
               ELSE IF node.addr \in cache
               THEN CatchUp(bs, get_successors_and_jumpkind(node.addr), cache, 1)
               ELSE <<copy(bs, node.addr)>>
         IN these \o Successors(bs, edges, headcache, cache, i + 1)

\* stack.deps[0] / stack.deps[1] of the call fix-up raise IndexError
PopReturnAddressRaises(bs) ==
    LET stack == get_reg(bs, arch.sp_offset, Ity(arch.bits))
    IN \/ Len(stack.node.deps) = 0
       \/ Len(stack.node.deps) = 1 /\ stack.node.deps[1].taints.pointer = ""

\* the call fix-up of the block end (260-267)
PopReturnAddress(bs) ==
    LET stack == get_reg(bs, arch.sp_offset, Ity(arch.bits))
        popped == IF stack.node.deps[1].taints.pointer # "" THEN stack.node.deps[1]
                  ELSE stack.node.deps[2]
    IN [stack.bs EXCEPT !.regs = Put1(stack.bs.regs, arch.sp_offset, popped),
                        !.tags = SubSeq(@, 1, Len(@) - 2)]

\* an end that forgets to skip the frame pointer
EndRegsWithBp(bs) == DOMAIN bs.regs \ {arch.sp_offset, arch.ip_offset}

\* the registers BlockState.end checks, i.e. all but sp, bp and ip
EndRegs(bs) == DOMAIN bs.regs \ {arch.sp_offset, arch.bp_offset, arch.ip_offset}

\* BlockState.end, visiting the registers in the order given
RECURSIVE end(_, _, _)
end(bs, offsets, i) ==
    IF i > Len(offsets) THEN bs
    ELSE end(access(bs, bs.regs[offsets[i]], AccessType.POINTER), offsets, i + 1)

\* a drain that hands the tags of a block to the frame before the calls of
\* the blocks completed earlier
DrainInFront(calls, tags) ==
    [i \in DOMAIN tags |->
        IF tags[i][1] = "ALLOC" THEN <<"alloc", tags[i][2]>>
        ELSE <<"access", tags[i][2]>>] \o calls

\* the tags drained into the frame (292-298): the calls the Struct receives
Drain(calls, tags) ==
    calls \o [i \in DOMAIN tags |->
                 IF tags[i][1] = "ALLOC" THEN <<"alloc", tags[i][2]>>
                 ELSE <<"access", tags[i][2]>>]

DrainRaises(tags) == \E i \in DOMAIN tags : tags[i][1] \notin {"ALLOC", "ACCESS"}

(***************************************************************************)
(* The driver and the traversal, one action per step of the code.          *)
(***************************************************************************)
\* Struct(arch, is_stack_frame=True).name: one fresh name per Struct
StructName(n) == "stack_" \o ToString(n)

\* the permutations of a finite set, as sequences
Perms(S) == {p \in [1 .. Cardinality(S) -> S] : \A i, j \in DOMAIN p : i # j => p[i] # p[j]}

\* the orders in which BlockState.end may meet the registers that it tags;
\* the registers it leaves alone commute with all others
EndOrders(bs) ==
    Perms({o \in EndRegs(bs) : bs.regs[o].taints.pointer = bs.taint_region})

NoRun == [funcaddr |-> 0, struct |-> [name |-> "", calls |-> <<>>], queue |-> <<>>,
          headcache |-> {}, cache |-> {}, mark_addrs |-> <<>>, mi |-> 0, si |-> 0,
          jumpkind |-> ""]

\* analyze_stack, up to the worklist loop (152-162)
StartAnalysis(funcaddr, name) ==
    LET stackexp == [ConstExpression(BVV(0, arch.bits), Ity(arch.bits), TRUE)
                        EXCEPT !.taints.pointer = name, !.addr = funcaddr]
        initial_state == [BlockState(funcaddr, name) EXCEPT
                             !.regs = Put1(@, arch.sp_offset, stackexp)]
    IN [NoRun EXCEPT !.funcaddr = funcaddr, !.struct = [name |-> name, calls |-> <<>>],
                     !.queue = <<initial_state>>]

\* for func in self.functions_list: struct = self.analyze_stack(func._addr)
AnalyzeFunction ==
    /\ pc = "driver"
    /\ idx <= Len(functions_list)
    /\ run' = StartAnalysis(functions_list[idx], StructName(nstructs + 1))
    /\ nstructs' = nstructs + 1
    /\ pc' = "loop"
    /\ UNCHANGED <<project, cfg, functions_list, chase_structs, structures, stack_frames,
                   idx, blockstate, exc, earlier>>

\* a worklist loop that does not look at headcache
PopBlockAgain ==
    /\ pc = "loop"
    /\ run.queue # <<>>
    /\ LET bs == Head(run.queue)
           block == lift(bs.addr)
       IN IF ~block.ok
          THEN /\ run' = [run EXCEPT !.queue = Tail(@)]
               /\ UNCHANGED <<pc, blockstate>>
          ELSE /\ run' = [run EXCEPT !.queue = Tail(@),
                                     !.headcache = @ \cup {bs.addr},
                                     !.mark_addrs = MarkAddrs(block),
                                     !.jumpkind = block.jumpkind,
                                     !.mi = 1, !.si = 0]
               /\ blockstate' = bs
               /\ pc' = "insn"
    /\ UNCHANGED <<project, cfg, functions_list, chase_structs, structures, stack_frames,
                   idx, exc, nstructs, earlier>>

\* the head of the worklist loop: pop, dedupe, lift (163-182)
PopBlock ==
    /\ pc = "loop"
    /\ run.queue # <<>>
    /\ LET bs == Head(run.queue)
           block == lift(bs.addr)
       IN IF bs.addr \in run.headcache \/ ~block.ok
          THEN /\ run' = [run EXCEPT !.queue = Tail(@)]
               /\ UNCHANGED <<pc, blockstate>>
          ELSE /\ run' = [run EXCEPT !.queue = Tail(@),
                                     !.headcache = @ \cup {bs.addr},
                                     !.mark_addrs = MarkAddrs(block),
                                     !.jumpkind = block.jumpkind,
                                     !.mi = 1, !.si = 0]
               /\ blockstate' = bs
               /\ pc' = "insn"
    /\ UNCHANGED <<project, cfg, functions_list, chase_structs, structures, stack_frames,
                   idx, exc, nstructs, earlier>>

\* for addr in mark_addrs: the cross-function check, the single-instruction
\* lift and its fresh TempStore (184-195)
NextInstruction ==
    /\ pc = "insn"
    /\ IF run.mi > Len(run.mark_addrs)
       THEN /\ pc' = "blockend"
            /\ UNCHANGED <<run, blockstate, exc>>
       ELSE LET addr == run.mark_addrs[run.mi]
            IN IF addr # run.funcaddr /\ addr \in cfg.functions
               THEN /\ exc' = "FidgetAnalysisFailure"
                    /\ pc' = "raise"
                    /\ UNCHANGED <<run, blockstate>>
               ELSE /\ run' = [run EXCEPT !.cache = @ \cup {addr}, !.si = 1]
                    /\ blockstate' = load_tempstore(blockstate, project.code[addr].tyenv)
                    /\ pc' = "stmt"
                    /\ UNCHANGED exc
    /\ UNCHANGED <<project, cfg, functions_list, chase_structs, structures, stack_frames,
                   idx, nstructs, earlier>>

\* for stmt_idx, stmt in stmtgen: one statement (197-257)
Statement ==
    /\ pc = "stmt"
    /\ LET addr == run.mark_addrs[run.mi]
           stmts == project.code[addr].stmts
       IN IF run.si > Len(stmts)
          THEN /\ run' = [run EXCEPT !.mi = @ + 1, !.si = 0]
               /\ pc' = "insn"
               /\ UNCHANGED <<blockstate, exc>>
          ELSE LET r == InterpretStatement(blockstate, stmts[run.si], addr, run.si,
                                           run.struct.name)
               IN /\ blockstate' = r.bs
                  /\ IF r.exc # ""
                     THEN /\ exc' = r.exc
                          /\ pc' = "raise"
                          /\ UNCHANGED run
                     ELSE /\ run' = [run EXCEPT !.si = @ + 1]
                          /\ UNCHANGED <<pc, exc>>
    /\ UNCHANGED <<project, cfg, functions_list, chase_structs, structures, stack_frames,
                   idx, nstructs, earlier>>

\* the end of a block: the terminator, the successors, BlockState.end and
\* the drain of the tag log into the frame (259-298)
EndBlock ==
    /\ pc = "blockend"
    /\ IF run.jumpkind = "Ijk_Call" \/ run.jumpkind \in OK_CONTINUE_JUMPS
       THEN IF run.jumpkind = "Ijk_Call" /\ arch.call_pushes_ret
               /\ PopReturnAddressRaises(blockstate)
            THEN /\ exc' = "IndexError"
                 /\ pc' = "raise"
                 /\ UNCHANGED <<run, blockstate>>
            ELSE LET bs1 == IF run.jumpkind = "Ijk_Call" /\ arch.call_pushes_ret
                            THEN PopReturnAddress(blockstate) ELSE blockstate
                     succ == Successors(bs1, get_successors_and_jumpkind(bs1.addr),
                                        run.headcache, run.cache, 1)
                 IN \E offsets \in EndOrders(bs1) :
                       LET bs2 == end(bs1, offsets, 1)
                       IN /\ blockstate' = bs2
                          /\ run' = [run EXCEPT !.queue = @ \o succ,
                                        !.struct.calls = Drain(@, bs2.tags)]
                          /\ pc' = "loop"
                          /\ UNCHANGED exc
       ELSE IF run.jumpkind \in {"Ijk_Ret", "Ijk_NoDecode"}
       THEN \E offsets \in EndOrders(blockstate) :
               LET bs2 == end(blockstate, offsets, 1)
               IN /\ blockstate' = bs2
                  /\ run' = [run EXCEPT !.struct.calls = Drain(@, bs2.tags)]
                  /\ pc' = "loop"
                  /\ UNCHANGED exc
       ELSE /\ exc' = "FidgetError"
            /\ pc' = "raise"
            /\ UNCHANGED <<run, blockstate>>
    /\ UNCHANGED <<project, cfg, functions_list, chase_structs, structures, stack_frames,
                   idx, nstructs, earlier>>

\* return struct; self.add_struct(struct); self.stack_frames[func._addr] = struct.name
ReturnStruct ==
    /\ pc = "loop"
    /\ run.queue = <<>>
    /\ structures' = Put1(structures, run.struct.name, run.struct.calls)
    /\ stack_frames' = Put1(stack_frames, run.funcaddr, run.struct.name)
    /\ idx' = idx + 1
    /\ pc' = "driver"
    /\ UNCHANGED <<project, cfg, functions_list, chase_structs, run, blockstate, exc,
                   nstructs, earlier>>

\* the classes of fidget.errors: every one derives from FidgetError, none
\* from another; ValueError, TypeError and IndexError are Python's own
ErrorBases == [FidgetError |-> {"FidgetError"},
               FidgetUnsupportedError |-> {"FidgetUnsupportedError", "FidgetError"},
               FidgetAnalysisFailure |-> {"FidgetAnalysisFailure", "FidgetError"},
               ValueError |-> {"ValueError"},
               TypeError |-> {"TypeError"},
               IndexError |-> {"IndexError"}]

\* isinstance(e, cls), as an except clause tests it
IsInstance(e, cls) == e \in DOMAIN ErrorBases /\ cls \in ErrorBases[e]

\* a driver that files the frame of a failed analysis all the same
CatchFailureAddsStruct ==
    /\ pc = "raise"
    /\ IsInstance(exc, "FidgetAnalysisFailure")
    /\ structures' = Put1(structures, run.struct.name, run.struct.calls)
    /\ stack_frames' = Put1(stack_frames, run.funcaddr, run.struct.name)
    /\ exc' = ""
    /\ idx' = idx + 1
    /\ pc' = "driver"
    /\ UNCHANGED <<project, cfg, functions_list, chase_structs, run, blockstate,
                   nstructs, earlier>>

\* except FidgetAnalysisFailure: pass
CatchFailure ==
    /\ pc = "raise"
    /\ IsInstance(exc, "FidgetAnalysisFailure")
    /\ exc' = ""
    /\ idx' = idx + 1
    /\ pc' = "driver"
    /\ UNCHANGED <<project, cfg, functions_list, chase_structs, structures, stack_frames,
                   run, blockstate, nstructs, earlier>>

\* any other exception leaves the constructor
Propagate ==
    /\ pc = "raise"
    /\ ~IsInstance(exc, "FidgetAnalysisFailure")
    /\ pc' = "aborted"
    /\ UNCHANGED <<project, cfg, functions_list, chase_structs, structures, stack_frames,
                   idx, run, blockstate, exc, nstructs, earlier>>

\* project.is_hooked(funcaddr)
is_hooked(funcaddr) == funcaddr \in project.hooked

\* main_bin.find_segment_containing(funcaddr): the segments that hold the
\* address, none of them when the result is None
find_segment_containing(funcaddr) ==
    {seg \in project.main_bin.segments : funcaddr \in seg}

\* main_bin.find_section_containing(funcaddr), likewise
find_section_containing(funcaddr) ==
    {sec \in project.main_bin.sections : funcaddr \in sec.addrs}

\* '.text' in main_bin.sections_map
HasTextSection == \E sec \in project.main_bin.sections : sec.name = ".text"

\* the values do_not_touch may end with (96-102): None (NoAddr) unless the
\* architecture is MIPS32 and the entry node has call successors, then the
\* one the graph enumerates last
do_not_touch ==
    LET calls == IF arch.name = "MIPS32" /\ project.entry \in DOMAIN cfg.nodes
                 THEN {e.addr : e \in {x \in cfg.nodes[project.entry].succs :
                                          x.jumpkind = "Ijk_Call"}}
                 ELSE {}
    IN IF calls = {} THEN {NoAddr} ELSE calls

\* one turn of the loop over the registry ends in out.append(func) (104-146)
Approved(funcaddr, stub) ==
    /\ funcaddr # project.entry
    /\ funcaddr # stub
    /\ ~is_hooked(funcaddr)
    /\ find_segment_containing(funcaddr) # {}
    /\ ~HasTextSection =>
          LET sec == find_section_containing(funcaddr)
          IN sec # {} /\ (CHOOSE x \in sec : TRUE).name = ".text"
    /\ funcaddr \notin project.main_bin.plt
    /\ funcaddr \notin cfg.unresolved

\* self.functions_list = self.get_real_functions(self.cfg) (72-73, 91-148):
\* the approved functions in the order the registry enumerates them;
\* get_any_node gives None for a function without a node, and reading
\* simprocedure_name of it raises AttributeError out of the constructor
GetRealFunctions ==
    /\ pc = "functions"
    /\ \E stub \in do_not_touch :
          LET out == {f \in cfg.functions : Approved(f, stub)}
          IN IF \E f \in out : f \notin DOMAIN cfg.nodes
             THEN /\ exc' = "AttributeError"
                  /\ pc' = "aborted"
                  /\ UNCHANGED functions_list
             ELSE /\ \E fl \in Perms(out) : functions_list' = fl
                  /\ pc' = "driver"
                  /\ UNCHANGED exc
    /\ UNCHANGED <<project, cfg, chase_structs, structures, stack_frames,
                   idx, run, blockstate, nstructs, earlier>>

\* the end of the constructor (84-85)
Finish ==
    /\ pc = "driver"
    /\ idx > Len(functions_list)
    /\ IF chase_structs
       THEN /\ exc' = "FidgetUnsupportedError"
            /\ pc' = "aborted"
       ELSE /\ pc' = "done"
            /\ UNCHANGED exc
    /\ UNCHANGED <<project, cfg, functions_list, chase_structs, structures, stack_frames,
                   idx, run, blockstate, nstructs, earlier>>

(***************************************************************************)
(* The binaries the model is run on.  An instruction is the statement list *)
(* of its single-instruction lift (after the IMark), the types of its      *)
(* temporaries and, for the last instruction of a block, the block's       *)
(* terminator kind.                                                        *)
(***************************************************************************)
W == Ity(ArchBits)
N8 == Ity(NarrowBits)
WordBytes == ArchBits \div 8

Get(o) == [tag |-> "Iex_Get", offset |-> o, ty |-> W]
GetN(o) == [tag |-> "Iex_Get", offset |-> o, ty |-> N8]
RdTmp(t) == [tag |-> "Iex_RdTmp", tmp |-> t, ty |-> W]
RdTmpN(t) == [tag |-> "Iex_RdTmp", tmp |-> t, ty |-> N8]
Const(v) == [tag |-> "Iex_Const", value |-> v, ty |-> W]
ConstN(v) == [tag |-> "Iex_Const", value |-> v, ty |-> N8]
Binop(base, x, y) ==
    [tag |-> "Iex_Binop", op |-> [base |-> base, sfx |-> ToString(ArchBits)],
     args |-> <<x, y>>, ty |-> W]
Load(x) == [tag |-> "Iex_Load", addr |-> x, ty |-> W]
ITE(c, t, f) == [tag |-> "Iex_ITE", cond |-> c, iftrue |-> t, iffalse |-> f, ty |-> W]
CCall(args) == [tag |-> "Iex_CCall", args |-> args, ty |-> W]

WrTmp(t, e) == [tag |-> "Ist_WrTmp", tmp |-> t, data |-> e]
Put(o, e) == [tag |-> "Ist_Put", offset |-> o, data |-> e]
Store(x, e) == [tag |-> "Ist_Store", addr |-> x, data |-> e]
LoadG(t, x, alt, g) ==
    [tag |-> "Ist_LoadG", dst |-> t, addr |-> x, alt |-> alt, guard |-> g,
     cvt_types |-> <<W, W>>, cvt_signed |-> FALSE]
StoreG(x, e, g) == [tag |-> "Ist_StoreG", addr |-> x, data |-> e, guard |-> g]
Exit(g, dst) ==
    [tag |-> "Ist_Exit", guard |-> g, dst |-> [tag |-> "Ico_U16", value |-> dst, ty |-> W]]

Insn(stmts, tyenv) == [stmts |-> stmts, tyenv |-> tyenv, jk |-> "", nodecode |-> FALSE]
Ends(insn, jk) == [insn EXCEPT !.jk = jk]
NoDecode == [stmts |-> <<>>, tyenv |-> <<>>, jk |-> "", nodecode |-> TRUE]

\* general-purpose registers used by the instructions below
GPR == [a |-> 8, b |-> 20]

\* sub sp, c / add sp, c
sub_sp(a, c) ==
    Insn(<<WrTmp(0, Get(a.sp_offset)), WrTmp(1, Binop("Iop_Sub", RdTmp(0), Const(c))),
           Put(a.sp_offset, RdTmp(1))>>, <<W, W>>)
add_sp(a, c) ==
    Insn(<<WrTmp(0, Get(a.sp_offset)), WrTmp(1, Binop("Iop_Add", RdTmp(0), Const(c))),
           Put(a.sp_offset, RdTmp(1))>>, <<W, W>>)
\* mov [sp+off], src
store_sp(a, off, src) ==
    Insn(<<WrTmp(0, Get(a.sp_offset)), WrTmp(1, Binop("Iop_Add", RdTmp(0), Const(off))),
           WrTmp(2, Get(src)), Store(RdTmp(1), RdTmp(2))>>, <<W, W, W>>)
\* mov dst, [sp+off]
load_sp(a, off, dst) ==
    Insn(<<WrTmp(0, Get(a.sp_offset)), WrTmp(1, Binop("Iop_Add", RdTmp(0), Const(off))),
           WrTmp(2, Load(RdTmp(1))), Put(dst, RdTmp(2))>>, <<W, W, W>>)
\* lea dst, [sp+off]
lea_sp(a, off, dst) ==
    Insn(<<WrTmp(0, Get(a.sp_offset)), WrTmp(1, Binop("Iop_Add", RdTmp(0), Const(off))),
           Put(dst, RdTmp(1))>>, <<W, W>>)
\* lea dst, [sp+index]
lea_sp_idx(a, dst, index) ==
    Insn(<<WrTmp(0, Get(a.sp_offset)), WrTmp(1, Get(index)),
           WrTmp(2, Binop("Iop_Add", RdTmp(0), RdTmp(1))), Put(dst, RdTmp(2))>>,
         <<W, W, W>>)
\* mov dst, src
mov(dst, src) == Insn(<<WrTmp(0, Get(src)), Put(dst, RdTmp(0))>>, <<W>>)
\* mov dst, imm
movi(dst, c) == Insn(<<Put(dst, Const(c))>>, <<>>)
\* mov [base], src
store_reg(base, src) ==
    Insn(<<WrTmp(0, Get(base)), WrTmp(1, Get(src)), Store(RdTmp(0), RdTmp(1))>>, <<W, W>>)
\* sub sp, reg: a dynamic stack adjustment
alloca(a, r) ==
    Insn(<<WrTmp(0, Get(a.sp_offset)), WrTmp(1, Get(r)),
           WrTmp(2, Binop("Iop_Sub", RdTmp(0), RdTmp(1))), Put(a.sp_offset, RdTmp(2))>>,
         <<W, W, W>>)
\* a conditional load from [sp+off] / a conditional store to [sp+off]
loadg_sp(a, off, g) ==
    Insn(<<WrTmp(0, Get(a.sp_offset)), WrTmp(1, Binop("Iop_Add", RdTmp(0), Const(off))),
           LoadG(2, RdTmp(1), Const(0), Const(g)), Put(GPR.a, RdTmp(2))>>, <<W, W, W>>)
storeg_sp(a, off, g) ==
    Insn(<<WrTmp(0, Get(a.sp_offset)), WrTmp(1, Binop("Iop_Add", RdTmp(0), Const(off))),
           WrTmp(2, Get(GPR.b)), StoreG(RdTmp(1), RdTmp(2), Const(g))>>, <<W, W, W>>)
\* the call: the return address is pushed where the convention says so
call(a, retaddr) ==
    Ends(IF a.call_pushes_ret
         THEN Insn(<<WrTmp(0, Get(a.sp_offset)),
                     WrTmp(1, Binop("Iop_Sub", RdTmp(0), Const(WordBytes))),
                     Put(a.sp_offset, RdTmp(1)), Store(RdTmp(1), Const(retaddr))>>, <<W, W>>)
         ELSE Insn(<<Put(a.lr_offset, Const(retaddr))>>, <<>>),
         "Ijk_Call")
\* the return
ret(a) ==
    Ends(IF a.call_pushes_ret
         THEN Insn(<<WrTmp(0, Get(a.sp_offset)), WrTmp(1, Load(RdTmp(0))),
                     WrTmp(2, Binop("Iop_Add", RdTmp(0), Const(WordBytes))),
                     Put(a.sp_offset, RdTmp(2))>>, <<W, W, W>>)
         ELSE Insn(<<WrTmp(0, Get(a.lr_offset)), Put(a.ip_offset, RdTmp(0))>>, <<W>>),
         "Ijk_Ret")
\* jmp / jcc: the targets are the CFG's business
jmp == Ends(Insn(<<>>, <<>>), "Ijk_Boring")
jcc(dst) == Ends(Insn(<<WrTmp(0, Get(GPR.a)), Exit(RdTmp(0), dst)>>, <<W>>), "Ijk_Boring")
nop == Insn(<<[tag |-> "Ist_NoOp"]>>, <<>>)

ArchX86 == [name |-> "X86", bits |-> ArchBits, sp_offset |-> 24, bp_offset |-> 28,
            ip_offset |-> 68, lr_offset |-> 0, itstate |-> 0, call_pushes_ret |-> TRUE]
ArchARM == [name |-> "ARMEL", bits |-> ArchBits, sp_offset |-> 60, bp_offset |-> 52,
            ip_offset |-> 68, lr_offset |-> 64, itstate |-> 392, call_pushes_ret |-> FALSE]
ArchMIPS == [ArchARM EXCEPT !.name = "MIPS32"]
Archs == {ArchX86, ArchARM}

\* instructions with a flaw the engine has to cope with
unknown_stmt == Insn(<<[tag |-> "Ist_LLSC"]>>, <<>>)
unknown_expr == Insn(<<Put(GPR.a, [tag |-> "Iex_Binder", ty |-> W])>>, <<>>)
unknown_op ==
    Insn(<<Put(GPR.a, Binop("Iop_Sar", Get(GPR.a), Const(1)))>>, <<>>)
failing_op(a) ==
    Insn(<<Put(GPR.a, Binop("Iop_DivModU", Get(a.sp_offset), Const(1)))>>, <<>>)
unwritten_temp == Insn(<<Put(GPR.a, RdTmp(0))>>, <<W>>)
\* mov [imm], reg: a store of a register to a literal address
store_abs(c, src) == Insn(<<WrTmp(0, Get(src)), Store(Const(c), RdTmp(0))>>, <<W>>)
\* mov al, imm8 / mov bl, al: narrow register traffic
movi_narrow(dst, c) == Insn(<<Put(dst, ConstN(c))>>, <<>>)
mov_narrow(dst, src) ==
    Insn(<<[tag |-> "Ist_WrTmp", tmp |-> 0, data |-> GetN(src)], Put(dst, RdTmpN(0))>>,
         <<N8>>)
\* statements the engine does not interpret
inert(a) ==
    Insn(<<[tag |-> "Ist_PutI", data |-> Get(a.sp_offset)],
           [tag |-> "Ist_CAS", oldLo |-> 0, oldHi |-> IRTemp_INVALID],
           [tag |-> "Ist_Dirty", tmp |-> 1],
           Put(GPR.b, ITE(RdTmp(0), Get(a.sp_offset), RdTmp(1))),
           Put(GPR.b, CCall(<<Get(GPR.b)>>)),
           [tag |-> "Ist_AbiHint"]>>, <<W, W>>)

\* mov reg, [imm]: a load from a literal address
load_abs(c, dst) == Insn(<<WrTmp(0, Load(Const(c))), Put(dst, RdTmp(0))>>, <<W>>)

\* the instructions a function body is drawn from: the ones the engine
\* interprets, and the ones that end the analysis of the function
GoodMenu(a) ==
    {store_sp(a, 8, GPR.a), load_sp(a, 8, GPR.a), lea_sp(a, 8, GPR.a), mov(GPR.b, GPR.a),
     store_reg(GPR.a, GPR.b), movi(a.sp_offset, 64),
     loadg_sp(a, 8, 0), loadg_sp(a, 8, 1), storeg_sp(a, 8, 0), storeg_sp(a, 8, 1),
     mov(a.bp_offset, a.sp_offset), movi_narrow(GPR.a, 5), mov_narrow(GPR.b, GPR.a),
     unknown_op, failing_op(a), load_abs(96, GPR.a), inert(a), nop}
BadMenu(a) ==
    {alloca(a, GPR.a), unknown_stmt, unknown_expr, unwritten_temp, store_abs(96, GPR.a)}
Menu(a) == GoodMenu(a) \cup BadMenu(a)

\* the smaller choice for the blocks of the branching functions
SmallMenu(a) ==
    {lea_sp(a, 8, GPR.a), store_reg(GPR.a, GPR.b), mov(a.sp_offset, GPR.a), nop}

\* instructions laid out from address base on
Place(base, insns) == [x \in base .. base + Len(insns) - 1 |-> insns[x - base + 1]]

CfgNode(succs) == [simprocedure_name |-> "", succs |-> succs]
Edge(x, jk) == [addr |-> x, jumpkind |-> jk]

\* the loader's initialized data
Data == (96 :> 7)

\* a one-block function: prologue, two instructions, epilogue, return
LineBinary(a, b1, b2) ==
    [arch |-> a,
     code |-> Place(1, <<sub_sp(a, 32), b1, b2, add_sp(a, 32), ret(a)>>),
     memory |-> Data,
     nodes |-> (1 :> CfgNode({})),
     functions |-> {1}]

\* a branch and a join: 1 -> {3, 10} -> 20
DiamondBinary(a, b, c, d) ==
    [arch |-> a,
     code |-> Place(1, <<sub_sp(a, 32), jcc(10)>>) @@ Place(3, <<c, jmp>>)
              @@ Place(10, <<b, jmp>>) @@ Place(20, <<d, add_sp(a, 32), ret(a)>>),
     memory |-> Data,
     nodes |-> (1 :> CfgNode({Edge(3, "Ijk_Boring"), Edge(10, "Ijk_Boring")})
                @@ 3 :> CfgNode({Edge(20, "Ijk_Boring")})
                @@ 10 :> CfgNode({Edge(20, "Ijk_Boring")})
                @@ 20 :> CfgNode({})),
     functions |-> {1}]

\* a loop whose head (2) lies inside the block lifted at the entry; the
\* graph either lets the entry node run to the branch or splits it at 2
LoopBinary(a, body, split) ==
    [arch |-> a,
     code |-> Place(1, <<sub_sp(a, 32), body, jcc(2)>>) @@ Place(4, <<add_sp(a, 32), ret(a)>>),
     memory |-> Data,
     nodes |-> (1 :> CfgNode(IF split THEN {Edge(2, "Ijk_Boring")}
                             ELSE {Edge(2, "Ijk_Boring"), Edge(4, "Ijk_Boring")})
                @@ 2 :> CfgNode({Edge(2, "Ijk_Boring"), Edge(4, "Ijk_Boring")})
                @@ 4 :> CfgNode({})),
     functions |-> {1}]

\* straight-line code that the graph cuts into the nodes 1, 2, 3 while the
\* lifter takes 1..3 as one block
ChainBinary(a, body) ==
    [arch |-> a,
     code |-> Place(1, <<sub_sp(a, 32), body, jmp>>) @@ Place(4, <<add_sp(a, 32), ret(a)>>),
     memory |-> Data,
     nodes |-> (1 :> CfgNode({Edge(2, "Ijk_Boring")})
                @@ 2 :> CfgNode({Edge(3, "Ijk_Boring")})
                @@ 3 :> CfgNode({Edge(4, "Ijk_Boring")})
                @@ 4 :> CfgNode({})),
     functions |-> {1}]

\* a function that calls the function at 30 and goes on at 4
CallBinary(a, slot) ==
    [arch |-> a,
     code |-> Place(1, <<sub_sp(a, 32), slot, call(a, 4)>>)
              @@ Place(4, <<add_sp(a, 32), ret(a)>>) @@ Place(30, <<ret(a)>>),
     memory |-> Data,
     nodes |-> (1 :> CfgNode({Edge(30, "Ijk_Call"), Edge(4, "Ijk_FakeRet")})
                @@ 4 :> CfgNode({}) @@ 30 :> CfgNode({})),
     functions |-> {1, 30}]

\* a block that ends in a terminator kind kind, or in undecodable bytes
TerminatorBinary(a, jk) ==
    [arch |-> a,
     code |-> Place(1, <<sub_sp(a, 32), store_sp(a, 8, GPR.a),
                         IF jk = "Ijk_NoDecode" THEN NoDecode ELSE Ends(nop, jk)>>)
              @@ Place(4, <<add_sp(a, 32), ret(a)>>),
     memory |-> Data,
     nodes |-> (1 :> CfgNode({Edge(4, "Ijk_Boring")}) @@ 4 :> CfgNode({})),
     functions |-> {1}]

\* a function whose code runs on into the function at 3
RunOnBinary(a) ==
    [arch |-> a,
     code |-> Place(1, <<sub_sp(a, 32), nop>>) @@ Place(3, <<lea_sp(a, 8, GPR.a), ret(a)>>),
     memory |-> Data,
     nodes |-> (1 :> CfgNode({}) @@ 3 :> CfgNode({})),
     functions |-> {1, 3}]

\* a function that jumps to an unmapped address (50) and to a hooked one (40)
StrayBinary(a) ==
    [arch |-> a,
     code |-> Place(1, <<sub_sp(a, 32), lea_sp(a, 8, GPR.a), jcc(40)>>),
     memory |-> Data,
     nodes |-> (1 :> CfgNode({Edge(40, "Ijk_Boring"), Edge(50, "Ijk_Boring")})
                @@ 40 :> [simprocedure_name |-> "puts", succs |-> {}]
                @@ 50 :> CfgNode({})),
     functions |-> {1}]

\* a function that jumps into the middle of the function at 30
JumpInBinary(a) ==
    [arch |-> a,
     code |-> Place(1, <<sub_sp(a, 32), jmp>>)
              @@ Place(30, <<sub_sp(a, 32), add_sp(a, 32), ret(a)>>),
     memory |-> Data,
     nodes |-> (1 :> CfgNode({Edge(31, "Ijk_Boring")})
                @@ 30 :> CfgNode({}) @@ 31 :> CfgNode({})),
     functions |-> {1, 30}]

\* mov [sp+off], imm
storei_sp(a, off, c) ==
    Insn(<<WrTmp(0, Get(a.sp_offset)), WrTmp(1, Binop("Iop_Add", RdTmp(0), Const(off))),
           Store(RdTmp(1), Const(c))>>, <<W, W>>)

\* a block that stores a literal to a frame slot and loads it back, and a
\* successor block that loads the same slot
HandOverBinary(a) ==
    [arch |-> a,
     code |-> Place(1, <<sub_sp(a, 32), storei_sp(a, 8, 7), load_sp(a, 8, GPR.a), jmp>>)
              @@ Place(5, <<load_sp(a, 8, GPR.b), add_sp(a, 32), ret(a)>>),
     memory |-> Data,
     nodes |-> (1 :> CfgNode({Edge(5, "Ijk_Boring")}) @@ 5 :> CfgNode({})),
     functions |-> {1}]

\* the argument functions_list: the functions of the registry, in any order
FunctionLists(b) ==
    {p \in UNION {[1 .. n -> b.functions] : n \in 1 .. Cardinality(b.functions)} :
        \A i, j \in DOMAIN p : i # j => p[i] # p[j]}

Orders == {"asc", "desc"}

\* what the loader and the graph know about a binary all of whose code is
\* mapped, lies in .text, and is neither hooked nor hard to resolve
PlainLoader(b) ==
    [entry |-> 0, hooked |-> {}, segments |-> {DOMAIN b.code},
     sections |-> {[name |-> ".text", addrs |-> DOMAIN b.code]},
     plt |-> {}, unresolved |-> {}]

\* a construction that is given its functions_list
Input(b, o, fl, chase) ==
    [binary |-> b, loader |-> PlainLoader(b), order |-> o, given |-> TRUE,
     functions_list |-> fl, chase_structs |-> chase]

\* three functions, 1, 30 and 40; the functions at 30 and at 40 may each have
\* a trait that get_real_functions looks at, and the section that holds the
\* code may or may not be called .text
Traits == {"none", "entry", "stub", "hooked", "unmapped", "outside_text", "plt",
           "unresolved", "simproc_head", "no_node"}

RegistryBinary(a, t30) ==
    [arch |-> a,
     code |-> Place(1, <<sub_sp(a, 32), add_sp(a, 32), ret(a)>>)
              @@ Place(30, <<ret(a)>>) @@ Place(40, <<ret(a)>>),
     memory |-> Data,
     nodes |-> [n \in {1, 40} \cup (IF t30 = "no_node" THEN {} ELSE {30}) |->
                  [simprocedure_name |-> IF n = 30 /\ t30 = "simproc_head"
                                         THEN "strlen" ELSE "",
                   succs |-> IF n = 40 /\ t30 = "stub"
                             THEN {Edge(30, "Ijk_Call")} ELSE {}]],
     functions |-> {1, 30, 40}]

RegistryLoader(t30, t40, has_text) ==
    LET Has(t) == (IF t30 = t THEN {30} ELSE {}) \cup (IF t40 = t THEN {40} ELSE {})
        all == {1, 2, 3, 30, 40}
    IN [entry |-> IF t30 = "entry" THEN 30 ELSE IF t30 = "stub" THEN 40 ELSE 0,
        hooked |-> Has("hooked"),
        segments |-> {all \ Has("unmapped")},
        sections |-> {[name |-> IF has_text THEN ".text" ELSE ".code",
                       addrs |-> all \ Has("outside_text")],
                      [name |-> ".init", addrs |-> Has("outside_text")]},
        plt |-> Has("plt"),
        unresolved |-> Has("unresolved")]

\* a construction that is given no functions_list (None)
RegistryInput(t30, t40, has_text) ==
    [binary |-> RegistryBinary(IF t30 = "stub" THEN ArchMIPS ELSE ArchX86, t30),
     loader |-> RegistryLoader(t30, t40, has_text), order |-> "asc", given |-> FALSE,
     functions_list |-> <<>>, chase_structs |-> FALSE]

\* every order of the graph and every list of the binary's functions
AllInputs(b, chases) ==
    {Input(b, o, fl, c) : o \in Orders, fl \in FunctionLists(b), c \in chases}

\* the inputs of the model
Inputs ==
    {Input(LineBinary(ArchX86, b1, b2), "asc", <<1>>, FALSE) :
        b1 \in GoodMenu(ArchX86), b2 \in Menu(ArchX86)}
    \cup {Input(LineBinary(ArchX86, b1, nop), "asc", <<1>>, c) :
        b1 \in BadMenu(ArchX86), c \in BOOLEAN}
    \cup {Input(LineBinary(ArchX86, movi(ArchX86.sp_offset, 0), movi(ArchX86.sp_offset, 0)),
                "asc", <<1>>, FALSE)}
    \cup {Input(LineBinary(ArchARM, b1, b2), "desc", <<1>>, FALSE) :
        b1 \in SmallMenu(ArchARM), b2 \in SmallMenu(ArchARM) \cup BadMenu(ArchARM)}
    \cup {Input(LineBinary(ArchARM, store_sp(ArchARM, 8, GPR.a), b2), "desc", <<1>>, FALSE) :
        b2 \in {load_sp(ArchARM, 8, GPR.a), loadg_sp(ArchARM, 8, 0),
                storeg_sp(ArchARM, 8, 0)}}
    \cup UNION {AllInputs(DiamondBinary(ArchX86, b, c, d), {FALSE}) :
        b \in SmallMenu(ArchX86), c \in SmallMenu(ArchX86),
        d \in SmallMenu(ArchX86) \ {lea_sp(ArchX86, 8, GPR.a)}}
    \cup UNION {AllInputs(LoopBinary(a, body, split), {FALSE}) :
        a \in Archs, body \in {nop, lea_sp(ArchX86, 8, GPR.a)}, split \in BOOLEAN}
    \cup UNION {AllInputs(ChainBinary(ArchX86, body), {FALSE}) :
        body \in {nop, lea_sp(ArchX86, 8, GPR.a)}}
    \cup UNION {AllInputs(LoopBinary(ArchX86, body, FALSE), {FALSE}) :
        body \in {lea_sp_idx(ArchX86, GPR.a, GPR.b), movi(ArchX86.sp_offset, 64)}}
    \cup UNION {AllInputs(CallBinary(ArchX86, slot), BOOLEAN) :
        slot \in {nop, store_sp(ArchX86, 8, GPR.a), lea_sp(ArchX86, 8, GPR.a),
                  movi(ArchX86.sp_offset, 64), alloca(ArchX86, GPR.a), unknown_stmt}}
    \cup UNION {AllInputs(CallBinary(ArchARM, slot), {FALSE}) :
        slot \in {nop, store_sp(ArchARM, 8, GPR.a), alloca(ArchARM, GPR.a)}}
    \cup UNION {AllInputs(TerminatorBinary(ArchX86, jk), {FALSE}) :
        jk \in {"Ijk_NoDecode", "Ijk_Yield", "Ijk_Sys_syscall", "Ijk_Boring"}}
    \cup AllInputs(RunOnBinary(ArchX86), BOOLEAN)
    \cup AllInputs(StrayBinary(ArchX86), {FALSE})
    \cup AllInputs(JumpInBinary(ArchX86), {FALSE})
    \cup UNION {AllInputs(HandOverBinary(a), {FALSE}) : a \in Archs}
    \cup {RegistryInput(t30, t40, has_text) :
            t30 \in Traits, t40 \in {"none", "unresolved", "outside_text"},
            has_text \in BOOLEAN}

\* bound: how many earlier constructions on the same binary are remembered
MaxEarlier == 1

Init ==
    \E in \in Inputs :
       /\ project = [arch |-> in.binary.arch, code |-> in.binary.code,
                     memory |-> in.binary.memory, entry |-> in.loader.entry,
                     hooked |-> in.loader.hooked,
                     main_bin |-> [segments |-> in.loader.segments,
                                   sections |-> in.loader.sections,
                                   plt |-> in.loader.plt]]
       /\ cfg = [nodes |-> in.binary.nodes, functions |-> in.binary.functions,
                 order |-> in.order, unresolved |-> in.loader.unresolved]
       /\ functions_list = in.functions_list
       /\ chase_structs = in.chase_structs
       /\ structures = EmptyMap
       /\ stack_frames = EmptyMap
       /\ pc = IF in.given THEN "driver" ELSE "functions"
       /\ idx = 1
       /\ run = NoRun
       /\ blockstate = [addr |-> 0, taint_region |-> "", hasTemps |-> FALSE,
                        tempstore |-> EmptyMap, tyenv |-> <<>>, regs |-> EmptyMap,
                        mem_regions |-> EmptyMap, tags |-> <<>>]
       /\ exc = ""
       /\ nstructs = 0
       /\ earlier = <<>>

\* StructureAnalysis is constructed again on the same binary; the graph may
\* enumerate its edges in another order (57-73)
Reconstruct ==
    /\ pc \in {"done", "aborted"}
    /\ Len(earlier) < MaxEarlier
    /\ earlier' = Append(earlier,
                         [f \in DOMAIN stack_frames |-> structures[stack_frames[f]]])
    /\ \E o \in Orders \ {cfg.order} : cfg' = [cfg EXCEPT !.order = o]
    /\ structures' = EmptyMap
    /\ stack_frames' = EmptyMap
    /\ pc' = "driver"
    /\ idx' = 1
    /\ run' = NoRun
    /\ exc' = ""
    /\ nstructs' = 0
    /\ UNCHANGED <<project, functions_list, chase_structs, blockstate>>

Next ==
    \/ AnalyzeFunction
    \/ PopBlock
    \/ NextInstruction
    \/ Statement
    \/ EndBlock
    \/ ReturnStruct
    \/ CatchFailure
    \/ Propagate
    \/ Finish
    \/ Reconstruct
    \/ GetRealFunctions

Spec == Init /\ [][Next]_vars

(***************************************************************************)
(* The driver's error handling.                                            *)
(***************************************************************************)
\* the frames delivered so far: function address -> the calls its Struct got
Delivered == [f \in DOMAIN stack_frames |-> structures[stack_frames[f]]]

\* C1: when analyze_stack raises FidgetAnalysisFailure the driver catches it,
\* records nothing for that function in stack_frames or structures and goes
\* on to the next function of the list, which it analyses; when analyze_stack
\* returns a frame, stack_frames[function address] becomes the frame's name
\* and the name becomes a key of structures
C1_FailureCaughtFrameRecorded ==
    /\ [][(pc = "raise" /\ exc = "FidgetAnalysisFailure") =>
             /\ pc' = "driver" /\ idx' = idx + 1 /\ exc' = ""
             /\ UNCHANGED <<structures, stack_frames>>
             /\ run.funcaddr \notin DOMAIN stack_frames'
             /\ run.struct.name \notin DOMAIN structures']_vars
    /\ [][(pc = "driver" /\ idx <= Len(functions_list)) =>
             /\ pc' = "loop" /\ idx' = idx
             /\ run'.funcaddr = functions_list[idx]
             /\ Len(run'.queue) = 1]_vars
    /\ [][(pc = "loop" /\ run.queue = <<>>) =>
             /\ pc' = "driver" /\ idx' = idx + 1
             /\ run.funcaddr \in DOMAIN stack_frames'
             /\ stack_frames'[run.funcaddr] = run.struct.name
             /\ run.struct.name \in DOMAIN structures'
             /\ structures'[run.struct.name] = run.struct.calls
             /\ \A f \in DOMAIN stack_frames :
                   f \in DOMAIN stack_frames' /\ stack_frames'[f] = stack_frames[f]]_vars

\* a failed function is absent from the results, the function after it present
C1_Witness ==
    /\ pc = "done"
    /\ Len(functions_list) = 2
    /\ functions_list[1] \notin DOMAIN stack_frames
    /\ functions_list[2] \in DOMAIN stack_frames
    /\ stack_frames[functions_list[2]] \in DOMAIN structures

\* C2: a fatal error raised while one function is analysed (an unhandled
\* statement or expression kind, an unknown terminator kind, an unknown tag)
\* is caught by the driver like a per-function failure, so the construction
\* is never aborted while functions of the list are still to be analysed
C2_FatalErrorCaught ==
    (pc = "aborted" /\ exc \in {"FidgetUnsupportedError", "FidgetError"})
        => idx > Len(functions_list)

(***************************************************************************)
(* The statement being interpreted.                                        *)
(***************************************************************************)
AtStatement ==
    /\ pc \in {"stmt", "raise"}
    /\ run.mi \in DOMAIN run.mark_addrs
    /\ run.si \in DOMAIN project.code[run.mark_addrs[run.mi]].stmts

CurAddr == run.mark_addrs[run.mi]
CurStmt == project.code[CurAddr].stmts[run.si]
CurPath == <<"statements", ToString(run.si)>>

IsSpPut(stmt) == stmt.tag = "Ist_Put" /\ stmt.offset = arch.sp_offset

AllocCount(tags) == Cardinality({i \in DOMAIN tags : tags[i][1] = "ALLOC"})

\* the statement about to be interpreted writes a non-concrete value to sp
NonConcreteSpWrite ==
    /\ pc = "stmt" /\ AtStatement /\ IsSpPut(CurStmt)
    /\ LET e == SmartExpression(blockstate, CurStmt.data, CurAddr, CurPath \o <<"data">>)
       IN e.exc = "" /\ ~e.node.taints.concrete

\* C3: a write of a non-concrete value to the stack-pointer register raises
\* FidgetAnalysisFailure, appends no ALLOC tag, and the function gets no
\* entry in stack_frames or structures
C3_NonConcreteSpWriteFails ==
    /\ [][NonConcreteSpWrite =>
             /\ pc' = "raise" /\ exc' = "FidgetAnalysisFailure"
             /\ AllocCount(blockstate'.tags) = AllocCount(blockstate.tags)
             /\ run'.struct.calls = run.struct.calls]_vars
    /\ [][(pc = "raise" /\ exc = "FidgetAnalysisFailure" /\ AtStatement /\ IsSpPut(CurStmt)) =>
             /\ pc' = "driver"
             /\ run.funcaddr \notin DOMAIN stack_frames'
             /\ run.struct.name \notin DOMAIN structures']_vars

\* the analysis has just failed on a stack-pointer write, after the prologue
\* of the function had allocated the frame
C3_Witness ==
    /\ pc = "raise" /\ exc = "FidgetAnalysisFailure"
    /\ AtStatement /\ IsSpPut(CurStmt)
    /\ ~blockstate.regs[arch.sp_offset].taints.concrete
    /\ AllocCount(blockstate.tags) = 1

(***************************************************************************)
(* The worklist.                                                           *)
(***************************************************************************)
\* C4: a block head is interpreted at most once per function: a popped state
\* whose address is in headcache is dropped and nothing else changes; a
\* popped state is interpreted only if its address is not in headcache, and
\* then the address is added; headcache never shrinks during the analysis
C4_BlockInterpretedOnce ==
    /\ [][(pc = "loop" /\ run.queue # <<>> /\ Head(run.queue).addr \in run.headcache) =>
             /\ pc' = "loop"
             /\ run' = [run EXCEPT !.queue = Tail(@)]
             /\ UNCHANGED <<blockstate, structures, stack_frames>>]_vars
    /\ [][(pc = "loop" /\ pc' = "insn") =>
             /\ blockstate'.addr \notin run.headcache
             /\ run'.headcache = run.headcache \cup {blockstate'.addr}]_vars
    /\ [][(pc \in {"loop", "insn", "stmt", "blockend"} /\ pc' # "driver") =>
             run.headcache \subseteq run'.headcache]_vars
    /\ [][pc' = "insn" => pc \in {"loop", "stmt"}]_vars

\* a second state for an interpreted block is about to be popped, and it
\* carries other registers than the state that was interpreted
C4_Witness ==
    /\ pc = "loop" /\ run.queue # <<>>
    /\ Head(run.queue).addr \in run.headcache
    /\ Len(run.queue) = 1
    /\ blockstate.addr = Head(run.queue).addr
    /\ \E o \in DOMAIN Head(run.queue).regs : o \notin DOMAIN blockstate.regs

(***************************************************************************)
(* What the code of a binary is made of, read off its instructions.        *)
(***************************************************************************)
Code == {project.code[a] : a \in DOMAIN project.code}

\* the expression a temporary is defined by within one instruction
DefinedBy(insn, t) ==
    LET w == {i \in DOMAIN insn.stmts :
                 insn.stmts[i].tag = "Ist_WrTmp" /\ insn.stmts[i].tmp = t}
    IN IF w = {} THEN [tag |-> "none"] ELSE insn.stmts[CHOOSE i \in w : TRUE].data

\* sp := sp + literal, or sp := sp - literal
IsConstantAdjustment(insn, e) ==
    /\ e.tag = "Iex_RdTmp"
    /\ LET d == DefinedBy(insn, e.tmp)
       IN /\ d.tag = "Iex_Binop"
          /\ d.op.base \in {"Iop_Add", "Iop_Sub"}
          /\ d.args[2].tag = "Iex_Const"
          /\ d.args[1].tag = "Iex_RdTmp"
          /\ DefinedBy(insn, d.args[1].tmp) = Get(arch.sp_offset)

\* every stack-pointer write of the binary is a constant adjustment
ConstantStackWrites ==
    \A insn \in Code : \A i \in DOMAIN insn.stmts :
        IsSpPut(insn.stmts[i]) => IsConstantAdjustment(insn, insn.stmts[i].data)

\* no code runs on into the entry of a function, and no edge the traversal
\* follows leads to one
NoCrossFunctionJump ==
    /\ \A a \in cfg.functions :
          (a - 1) \in DOMAIN project.code =>
              (project.code[a - 1].jk # "" \/ project.code[a - 1].nodecode)
    /\ \A n \in DOMAIN cfg.nodes : \A e \in cfg.nodes[n].succs :
          e.jumpkind \in OK_CONTINUE_JUMPS => e.addr \notin cfg.functions

\* the expressions of a statement, and the expressions below an expression
StmtExprs(stmt) ==
    CASE stmt.tag = "Ist_Exit" -> {stmt.dst}
      [] stmt.tag \in {"Ist_WrTmp", "Ist_Put", "Ist_PutI"} -> {stmt.data}
      [] stmt.tag = "Ist_Store" -> {stmt.addr, stmt.data}
      [] stmt.tag = "Ist_LoadG" -> {stmt.addr, stmt.alt, stmt.guard}
      [] stmt.tag = "Ist_StoreG" -> {stmt.addr, stmt.data, stmt.guard}
      [] OTHER -> {}
SubExprs(e) ==
    {e[k] : k \in DOMAIN e \cap {"addr", "cond", "iftrue", "iffalse"}}
        \cup (IF "args" \in DOMAIN e THEN {e.args[i] : i \in DOMAIN e.args} ELSE {})

RECURSIVE ExprsBelow(_)
ExprsBelow(e) == {e} \cup UNION {ExprsBelow(x) : x \in SubExprs(e)}

\* the temporaries a statement reads and the ones it writes
TempsRead(stmt) ==
    {x.tmp : x \in {y \in UNION {ExprsBelow(e) : e \in StmtExprs(stmt)} :
                       y.tag = "Iex_RdTmp"}}
TempsWritten(stmt) ==
    CASE stmt.tag = "Ist_WrTmp" -> {stmt.tmp}
      [] stmt.tag = "Ist_LoadG" -> {stmt.dst}
      [] stmt.tag = "Ist_CAS" -> {stmt.oldLo, stmt.oldHi} \ {IRTemp_INVALID}
      [] stmt.tag = "Ist_Dirty" -> {stmt.tmp} \ {IRTemp_INVALID}
      [] OTHER -> {}

\* IR as the lifter gives it: only statement, expression and terminator
\* kinds the engine has a branch for, and every temporary written before it
\* is read
HandledConstructsOnly ==
    \A insn \in Code :
       /\ insn.jk \in {""} \cup OK_CONTINUE_JUMPS \cup {"Ijk_Call", "Ijk_Ret"}
       /\ \A i \in DOMAIN insn.stmts :
             /\ insn.stmts[i].tag \in
                   {"Ist_NoOp", "Ist_AbiHint", "Ist_MBE", "Ist_Exit", "Ist_WrTmp",
                    "Ist_Store", "Ist_Put", "Ist_LoadG", "Ist_StoreG", "Ist_PutI",
                    "Ist_CAS", "Ist_Dirty"}
             /\ \A e \in StmtExprs(insn.stmts[i]) : \A x \in ExprsBelow(e) :
                   x.tag \in ExprTags \/ IsIco(x)
             /\ TempsRead(insn.stmts[i]) \subseteq
                   UNION {TempsWritten(insn.stmts[j]) : j \in 1 .. (i - 1)}

\* C5: the analysis of a function whose stack-pointer writes are all constant
\* adjustments and which has no unresolved or cross-function jump (and whose
\* IR holds only constructs the engine handles) comes to its end with a
\* frame: it never ends in an exception
C5_ReturnsFrame ==
    (ConstantStackWrites /\ NoCrossFunctionJump /\ HandledConstructsOnly) => pc # "raise"

(***************************************************************************)
(* The order of the traversal.                                             *)
(***************************************************************************)
\* the tags a frame received, whatever their order
TagSet(calls) == {calls[i] : i \in DOMAIN calls}

\* C6: the tags delivered to the frames do not depend on the order in which
\* the successors of a block are enumerated and enqueued: two constructions
\* on the same binary that differ only in that order deliver the same tags
\* to the same frames
C6_OrderIndependent ==
    (pc = "done" /\ earlier # <<>>) =>
        /\ DOMAIN Delivered = DOMAIN earlier[Len(earlier)]
        /\ \A f \in DOMAIN Delivered :
              f \in DOMAIN earlier[Len(earlier)] =>
                  TagSet(Delivered[f]) = TagSet(earlier[Len(earlier)][f])

(***************************************************************************)
(* The end of a block.                                                     *)
(***************************************************************************)
\* a block that ends in a call has been interpreted, on an architecture
\* whose calls push the return address
AtCallEnd == pc = "blockend" /\ run.jumpkind = "Ijk_Call" /\ arch.call_pushes_ret

\* the address of the last instruction of the block
LastAddr == run.mark_addrs[Len(run.mark_addrs)]

\* the calls a frame receives for a sequence of tags
Calls(tags) == Drain(<<>>, tags)

\* C7: at the end of a block that ends in a call, on an architecture whose
\* calls push a return address: the stack-pointer register gets back the
\* value it had before the push (so the states copied for the successors
\* hold it), the two tags removed from the log are the ALLOC tag of the push
\* and the ACCESS tag of the store of the return address, and every tag the
\* block appended before them is delivered to the frame
C7_CallPopsPushAndStore ==
    [][AtCallEnd =>
         LET n == Len(blockstate.tags)
             sp == blockstate.regs[arch.sp_offset]
         IN /\ pc' = "loop"
            /\ blockstate'.regs[arch.sp_offset].cleanval =
                  BVV(sp.cleanval.v + WordBytes, ArchBits)
            /\ blockstate'.regs[arch.sp_offset].taints.pointer = sp.taints.pointer
            /\ \A i \in (Len(run.queue) + 1) .. Len(run'.queue) :
                  arch.sp_offset \in DOMAIN run'.queue[i].regs =>
                      run'.queue[i].regs[arch.sp_offset] = blockstate'.regs[arch.sp_offset]
            /\ n >= 2
            /\ blockstate.tags[n - 1][1] = "ALLOC"
            /\ blockstate.tags[n - 1][2].addr = LastAddr
            /\ blockstate.tags[n][1] = "ACCESS"
            /\ blockstate.tags[n][2].flags = AccessType.WRITE
            /\ blockstate.tags[n][2].addr = LastAddr
            /\ SubSeq(blockstate'.tags, 1, n - 2) = SubSeq(blockstate.tags, 1, n - 2)
            /\ SubSeq(run'.struct.calls, 1, Len(run.struct.calls) + n - 2) =
                  run.struct.calls \o Calls(SubSeq(blockstate.tags, 1, n - 2))]_vars

\* how many of the calls a frame received are of one kind
CountCalls(calls, kind, flags) ==
    Cardinality({i \in DOMAIN calls : calls[i][1] = kind /\ calls[i][2].flags = flags})

\* the function of the binary is: sub sp,0x20; store to [sp+8]; load from
\* [sp+8]; add sp,0x20; return, and the stored register holds no frame pointer
ScenarioA ==
    /\ project.code = LineBinary(arch, store_sp(arch, 8, GPR.a), load_sp(arch, 8, GPR.a)).code
    /\ functions_list = <<1>>

\* the values of the ALLOC tags a frame received, in order
RECURSIVE AllocValues(_)
AllocValues(calls) ==
    IF calls = <<>> THEN <<>>
    ELSE (IF Head(calls)[1] = "alloc" THEN <<Head(calls)[2].value>> ELSE <<>>)
         \o AllocValues(Tail(calls))

\* C8, as the spec has it: the frame of such a function receives exactly one
\* ALLOC tag, one WRITE-access tag, one READ-access tag and no POINTER-access
\* tag
C8_OneAllocTag ==
    (ScenarioA /\ pc = "done") =>
        /\ 1 \in DOMAIN stack_frames
        /\ CountCalls(Delivered[1], "alloc", 0) = 1
        /\ CountCalls(Delivered[1], "access", AccessType.WRITE) = 1
        /\ CountCalls(Delivered[1], "access", AccessType.READ) = 1
        /\ CountCalls(Delivered[1], "access", AccessType.POINTER) = 0

\* C8, amended: the frame of such a function receives one ALLOC tag for every
\* write of the stack pointer, that is one for the -0x20 adjustment, one for
\* the +0x20 adjustment and, where the return pops the return address, one
\* for the return; one WRITE-access tag for the store; one READ-access tag
\* for the load and, where the return pops the return address, one for that
\* read; and no POINTER-access tag
C8_AllocTagPerSpWrite ==
    (ScenarioA /\ pc = "done") =>
        /\ 1 \in DOMAIN stack_frames
        /\ AllocValues(Delivered[1]) =
              IF arch.call_pushes_ret THEN <<-32, 0, WordBytes>> ELSE <<-32, 0>>
        /\ CountCalls(Delivered[1], "access", AccessType.WRITE) = 1
        /\ CountCalls(Delivered[1], "access", AccessType.READ) =
              IF arch.call_pushes_ret THEN 2 ELSE 1
        /\ CountCalls(Delivered[1], "access", AccessType.POINTER) = 0
        /\ Len(Delivered[1]) = IF arch.call_pushes_ret THEN 6 ELSE 4

\* the function of scenario A has been analysed on an architecture whose
\* return does not touch the stack, and its frame has been filed
C8_Witness ==
    /\ ScenarioA /\ pc = "done" /\ ~arch.call_pushes_ret
    /\ 1 \in DOMAIN stack_frames
    /\ Len(Delivered[1]) = 4

\* the registers of a state that BlockState.end tags
PointerRegs(bs) ==
    {o \in DOMAIN bs.regs \ {arch.sp_offset, arch.bp_offset, arch.ip_offset} :
        bs.regs[o].taints.pointer = run.struct.name}

\* C9: at the end of an interpreted block, after the tags the block logged
\* (less the two the call fix-up removes), exactly one POINTER-access tag is
\* appended for each register other than sp, bp and ip whose value carries
\* the function's region taint, and no other tag: none for a register
\* without that taint, none for sp, bp or ip
C9_PointerTagPerRegister ==
    [][(pc = "blockend" /\ pc' = "loop") =>
         LET n == Len(blockstate.tags)
             base == IF AtCallEnd THEN SubSeq(blockstate.tags, 1, n - 2)
                     ELSE blockstate.tags
             new == SubSeq(blockstate'.tags, Len(base) + 1, Len(blockstate'.tags))
             P == PointerRegs(blockstate')
             Tag(o) == <<"ACCESS", make_bindata(blockstate'.regs[o], AccessType.POINTER)>>
         IN /\ SubSeq(blockstate'.tags, 1, Len(base)) = base
            /\ Len(new) = Cardinality(P)
            /\ \A o \in P : \E i \in DOMAIN new : new[i] = Tag(o)
            /\ \A i \in DOMAIN new : \E o \in P : new[i] = Tag(o)
            /\ run'.struct.calls = run.struct.calls \o Calls(blockstate'.tags)]_vars

\* a block has ended with the frame pointer and two other registers holding
\* frame addresses, and two POINTER-access tags were appended
C9_Witness ==
    /\ pc = "loop" /\ blockstate.addr \in run.headcache
    /\ blockstate.tags # <<>>
    /\ Cardinality(PointerRegs(blockstate)) = 2
    /\ Len(blockstate.tags) >= 2
    /\ blockstate.tags[Len(blockstate.tags)][2].flags = AccessType.POINTER
    /\ blockstate.tags[Len(blockstate.tags) - 1][2].flags = AccessType.POINTER
    /\ Len(run.struct.calls) >= Len(blockstate.tags)

\* the guards a conditional statement is tried with: statically false,
\* statically true, and one read from a temporary
Guards == {Const(0), Const(1), RdTmp(0)}

\* the address expression of the conditional statement about to be interpreted
CondAddr == SmartExpression(blockstate, CurStmt.addr, CurAddr, CurPath \o <<"addr">>)

\* the statement about to be interpreted is a conditional load or store
\* whose address lies in the function's frame
AtInScopeConditional ==
    /\ pc = "stmt" /\ AtStatement
    /\ CurStmt.tag \in {"Ist_LoadG", "Ist_StoreG"}
    /\ CondAddr.exc = ""
    /\ CondAddr.node.taints.pointer = run.struct.name

\* C10: a conditional load with an in-scope address appends exactly one
\* READ-access tag and writes its destination temporary, and nothing else; a
\* conditional store with an in-scope address appends the WRITE-access tag
\* and updates the memory map; and the state after the statement is the one
\* the statement yields under every guard, a statically false one included
C10_GuardIgnored ==
    [][AtInScopeConditional =>
         LET a == CondAddr.node
             v == SmartExpression(blockstate, CurStmt.data, CurAddr, CurPath \o <<"data">>).node
         IN /\ pc' = "stmt" /\ exc' = exc
            /\ \A g \in Guards :
                 InterpretStatement(blockstate, [CurStmt EXCEPT !.guard = g], CurAddr,
                                    run.si, run.struct.name)
                   = [bs |-> blockstate', exc |-> ""]
            /\ blockstate'.regs = blockstate.regs
            /\ CurStmt.tag = "Ist_LoadG" =>
                 /\ blockstate'.tags =
                      Append(blockstate.tags,
                             <<"ACCESS", make_bindata(a, AccessType.READ)>>)
                 /\ CurStmt.dst \in DOMAIN blockstate'.tempstore
                 /\ CurStmt.dst \notin DOMAIN blockstate.tempstore
                 /\ \A t \in DOMAIN blockstate'.tempstore \ {CurStmt.dst} :
                      /\ t \in DOMAIN blockstate.tempstore
                      /\ blockstate'.tempstore[t] = blockstate.tempstore[t]
                 /\ blockstate'.mem_regions = blockstate.mem_regions
            /\ CurStmt.tag = "Ist_StoreG" =>
                 /\ blockstate'.tags =
                      Append(blockstate.tags,
                             <<"ACCESS", make_bindata(a, AccessType.WRITE)>>)
                      \o (IF v.taints.pointer = run.struct.name
                          THEN <<<<"ACCESS", make_bindata(v, AccessType.POINTER)>>>>
                          ELSE <<>>)
                 /\ blockstate'.mem_regions =
                      Put1(blockstate.mem_regions, <<a.taints.pointer, a.cleanval>>, v)
                 /\ blockstate'.tempstore = blockstate.tempstore]_vars

\* a conditional load from the frame whose guard is statically false has
\* just been interpreted: its READ-access tag is the last tag and its
\* destination temporary is written
C10_Witness ==
    /\ pc = "stmt" /\ run.mi \in DOMAIN run.mark_addrs
    /\ run.si - 1 \in DOMAIN project.code[CurAddr].stmts
    /\ LET stmt == project.code[CurAddr].stmts[run.si - 1]
       IN /\ stmt.tag = "Ist_LoadG"
          /\ stmt.guard = Const(0)
          /\ stmt.dst \in DOMAIN blockstate.tempstore
          /\ blockstate.tags # <<>>
          /\ blockstate.tags[Len(blockstate.tags)][2].flags = AccessType.READ

(***************************************************************************)
(* The expression engine on its own.  One instruction is interpreted       *)
(* against a BlockState whose two general-purpose registers hold operands  *)
(* drawn from a bounded set: values with and without high bits, with no    *)
(* region taint, with the region of the function, and with another region. *)
(***************************************************************************)
OperandValues == {0, 8, 33029}
OperandRegions == {"", StructName(1), StructName(2)}

Operand(v, region) ==
    [ConstExpression(BVV(v, ArchBits), W, TRUE)
        EXCEPT !.taints.pointer = region, !.addr = 1]

\* the same value, not known exactly
Inexact(e) == [e EXCEPT !.taints.concrete = FALSE]

Operands ==
    {Operand(v, region) : v \in OperandValues, region \in OperandRegions}
    \cup {Inexact(Operand(v, region)) : v \in {8}, region \in OperandRegions}

\* op dst, a, b
binop_regs(base) ==
    Insn(<<WrTmp(0, Get(GPR.a)), WrTmp(1, Get(GPR.b)),
           WrTmp(2, Binop(base, RdTmp(0), RdTmp(1)))>>, <<W, W, W>>)

\* mov al, bl, then a read of al and a read of the whole register
narrow_write_read ==
    Insn(<<[tag |-> "Ist_WrTmp", tmp |-> 0, data |-> GetN(GPR.b)], Put(GPR.a, RdTmpN(0)),
           [tag |-> "Ist_WrTmp", tmp |-> 1, data |-> GetN(GPR.a)],
           WrTmp(2, Get(GPR.a))>>, <<N8, N8, W>>)

\* mov dst, [base], and the conditional load and store through a register
load_reg(base, dst) ==
    Insn(<<WrTmp(0, Get(base)), WrTmp(1, Load(RdTmp(0))), Put(dst, RdTmp(1))>>, <<W, W>>)
loadg_reg(base, dst) ==
    Insn(<<WrTmp(0, Get(base)), LoadG(1, RdTmp(0), Const(0), Const(1)),
           Put(dst, RdTmp(1))>>, <<W, W>>)
storeg_reg(base, src) ==
    Insn(<<WrTmp(0, Get(base)), WrTmp(1, Get(src)),
           StoreG(RdTmp(0), RdTmp(1), Const(1))>>, <<W, W>>)

\* a width above the architecture's (a 64-bit value on a 32-bit machine)
WideBits == ArchBits + NarrowBits
Wd == Ity(WideBits)

\* a register is given a value wider than the architecture's word, a literal
\* or the default of a register never written, and then the word in b
wide_then_word(literal) ==
    Insn(<<[tag |-> "Ist_WrTmp", tmp |-> 0,
            data |-> IF literal
                     THEN [tag |-> "Iex_Const", value |-> 5 * Pow2(ArchBits) + 7, ty |-> Wd]
                     ELSE [tag |-> "Iex_Get", offset |-> 40, ty |-> Wd]],
           Put(GPR.a, [tag |-> "Iex_RdTmp", tmp |-> 0, ty |-> Wd]),
           WrTmp(1, Get(GPR.b)), Put(GPR.a, RdTmp(1))>>, <<Wd, W>>)

\* a load through the low bits of register a, then a load through all of it
narrow_address ==
    Insn(<<[tag |-> "Ist_WrTmp", tmp |-> 0, data |-> GetN(GPR.a)],
           WrTmp(1, Load(RdTmpN(0))),
           WrTmp(2, Get(GPR.a)), WrTmp(3, Load(RdTmp(2)))>>, <<N8, W, W, W>>)

ExprInsns ==
    {binop_regs(base) : base \in {"Iop_Add", "Iop_Sub", "Iop_And", "Iop_Or", "Iop_Xor",
                                  "Iop_Mul"}}
    \cup {narrow_write_read}
    \cup {store_reg(GPR.a, GPR.b), load_reg(GPR.a, GPR.b), loadg_reg(GPR.a, GPR.b),
          storeg_reg(GPR.a, GPR.b)}
    \cup {wide_then_word(literal) : literal \in BOOLEAN}
    \cup {narrow_address}

\* the state at the first statement of the instruction at 1
InitExpr ==
    \E insn \in ExprInsns, x \in Operands, y \in Operands :
       /\ project = [arch |-> ArchX86, code |-> (1 :> Ends(insn, "Ijk_Ret")),
                     memory |-> Data, entry |-> 0, hooked |-> {},
                     main_bin |-> [segments |-> {{1}},
                                   sections |-> {[name |-> ".text", addrs |-> {1}]},
                                   plt |-> {}]]
       /\ cfg = [nodes |-> (1 :> CfgNode({})), functions |-> {1}, order |-> "asc",
                 unresolved |-> {}]
       /\ functions_list = <<1>>
       /\ chase_structs = FALSE
       /\ structures = EmptyMap
       /\ stack_frames = EmptyMap
       /\ pc = "stmt"
       /\ idx = 1
       /\ run = [StartAnalysis(1, StructName(1)) EXCEPT
                    !.queue = <<>>, !.headcache = {1}, !.cache = {1},
                    !.mark_addrs = <<1>>, !.mi = 1, !.si = 1, !.jumpkind = "Ijk_Ret"]
       /\ blockstate =
            load_tempstore(
               [StartAnalysis(1, StructName(1)).queue[1] EXCEPT
                   !.regs = Put1(Put1(@, GPR.a, x), GPR.b, y)],
               insn.tyenv)
       /\ exc = ""
       /\ nstructs = 1
       /\ earlier = <<>>

\* the statements of the instruction, and the end of its block
NextExpr ==
    \/ Statement
    \/ NextInstruction
    \/ EndBlock

SpecExpr == InitExpr /\ [][NextExpr]_vars

\* the region taint of the temporary t, read before the statement
TaintOf(e) == blockstate.tempstore[e.tmp].taints.pointer

\* C11: the region taint of an add or subtract node: add(ptr, const) and
\* add(const, ptr) carry the pointer's region; add(ptr, ptr) carries the
\* region when both are the same and none when they differ; sub(ptr, const)
\* carries the pointer's region; sub(ptr, ptr) and sub(const, ptr) carry
\* none; a node of an operator other than add, and, or, xor and subtract
\* carries none
C11_TaintLaws ==
    [][(pc = "stmt" /\ AtStatement /\ CurStmt.tag = "Ist_WrTmp"
        /\ CurStmt.data.tag = "Iex_Binop") =>
         LET t1 == TaintOf(CurStmt.data.args[1])
             t2 == TaintOf(CurStmt.data.args[2])
             r == blockstate'.tempstore[CurStmt.tmp].taints.pointer
             base == CurStmt.data.op.base
         IN /\ pc' = "stmt"
            /\ base = "Iop_Add" =>
                 r = IF t1 # "" /\ t2 # "" THEN (IF t1 = t2 THEN t1 ELSE "")
                     ELSE IF t1 # "" THEN t1
                     ELSE t2
            /\ base = "Iop_Sub" => r = IF t1 # "" /\ t2 = "" THEN t1 ELSE ""
            /\ base \notin {"Iop_Add", "Iop_Sub", "Iop_And", "Iop_Or", "Iop_Xor"}
                 => r = ""]_vars

\* the statement about to be interpreted puts a temporary into a register
\* that holds a wider value
AtNarrowPut ==
    /\ pc = "stmt" /\ AtStatement
    /\ CurStmt.tag = "Ist_Put" /\ CurStmt.data.tag = "Iex_RdTmp"
    /\ CurStmt.offset \in DOMAIN blockstate.regs
    /\ CurStmt.data.tmp \in DOMAIN blockstate.tempstore
    /\ blockstate.tempstore[CurStmt.data.tmp].size < blockstate.regs[CurStmt.offset].size

\* the statement about to be interpreted reads a register that holds a value
\* into a temporary
AtRegRead ==
    /\ pc = "stmt" /\ AtStatement
    /\ CurStmt.tag = "Ist_WrTmp" /\ CurStmt.data.tag = "Iex_Get"
    /\ CurStmt.data.offset \in DOMAIN blockstate.regs

\* C12: when a narrow value n is written over a wider value w, the result
\* truncated to n's width has exactly n's bits, and its bits above n's width
\* are w's bits at those positions; a read of a register at a narrower type
\* yields the register's low bits, and truncating a node to its own type
\* yields the node unchanged
C12_OverwriteTruncate ==
    /\ [][AtNarrowPut =>
            LET n == blockstate.tempstore[CurStmt.data.tmp]
                w == blockstate.regs[CurStmt.offset]
                o == blockstate'.regs[CurStmt.offset]
            IN /\ pc' = "stmt"
               /\ o.size = w.size /\ o.type = w.type
               /\ Extract(n.size - 1, 0, o.cleanval) = n.cleanval
               /\ Extract(w.size - 1, n.size, o.cleanval)
                    = Extract(w.size - 1, n.size, w.cleanval)
               /\ truncate(o, n.type).cleanval = n.cleanval
               /\ truncate(o, n.type).size = n.size]_vars
    /\ [][AtRegRead =>
            LET r == blockstate.regs[CurStmt.data.offset]
                t == blockstate'.tempstore[CurStmt.tmp]
            IN /\ pc' = "stmt"
               /\ truncate(r, r.type) = r
               /\ t.size = CurStmt.data.ty.n
               /\ t.cleanval = Extract(t.size - 1, 0, r.cleanval)
               /\ CurStmt.data.ty = r.type =>
                    /\ t.cleanval = r.cleanval /\ t.taints = r.taints
                    /\ t.deps = r.deps /\ t.type = r.type]_vars

\* a narrow value was written over a wider one whose high bits are not zero
\* and whose low bits are other ones, and the narrow read that follows gave
\* the narrow value back
C12_Witness ==
    /\ pc = "stmt" /\ AtStatement /\ run.si = 4
    /\ project.code[1].stmts = narrow_write_read.stmts
    /\ blockstate.regs[GPR.a].cls = "Custom"
    /\ blockstate.regs[GPR.a].cleanval.v \notin OperandValues
    /\ blockstate.regs[GPR.a].cleanval.v >= Pow2(NarrowBits)
    /\ blockstate.tempstore[1].cleanval = blockstate.tempstore[0].cleanval
    /\ blockstate.tempstore[1].cleanval.v # 0

\* the addresses of the function at f: the code laid out from f on, up to a
\* gap or the entry of the next function
Body(f) ==
    {a \in DOMAIN project.code :
        /\ a >= f
        /\ \A b \in f .. a : b \in DOMAIN project.code /\ (b = f \/ b \notin cfg.functions)}

\* the address lies in a known function other than the one at f
InOtherFunction(a, f) == \E g \in cfg.functions \ {f} : a \in Body(g)

\* the next instruction boundary of the block being interpreted
AtBoundary == pc = "insn" /\ run.mi \in DOMAIN run.mark_addrs

Enqueued == {run'.queue[i] : i \in Len(run.queue) + 1 .. Len(run'.queue)}

\* C14: the state copy made for an enqueued successor holds every register
\* of the source state whose value carries the function's region taint,
\* bound to the same node, and carries over no other register of the source:
\* any other register it has is one a fresh BlockState starts with
C14_CopyKeepsRegionRegisters ==
    [][(pc = "blockend" /\ pc' = "loop") =>
         \A c \in Enqueued :
            LET src == blockstate'
                Kept == {o \in DOMAIN src.regs :
                            src.regs[o].taints.pointer = run.struct.name}
            IN /\ c.taint_region = run.struct.name
               /\ \A o \in Kept : o \in DOMAIN c.regs /\ c.regs[o] = src.regs[o]
               /\ \A o \in DOMAIN c.regs \ Kept :
                     o \in DOMAIN SeedRegs /\ c.regs[o] = SeedRegs[o]
               /\ DOMAIN c.regs = Kept \cup DOMAIN SeedRegs]_vars

\* a block has ended and enqueued a copy that kept a register other than sp
\* holding a frame address and dropped a register without region taint
C14_Witness ==
    /\ pc = "loop" /\ run.queue # <<>> /\ blockstate.addr \in run.headcache
    /\ LET c == run.queue[Len(run.queue)]
       IN /\ c.addr \notin run.headcache
          /\ \E o \in DOMAIN c.regs \ {arch.sp_offset} :
                /\ c.regs[o].taints.pointer = run.struct.name
                /\ c.regs[o] = blockstate.regs[o]
          /\ \E o \in DOMAIN blockstate.regs : o \notin DOMAIN c.regs

\* C15: in every BlockState the traversal interprets, from the start of the
\* block to its end, the register map has an entry for the stack-pointer
\* register
C15_SpAlwaysPresent ==
    pc \in {"insn", "stmt", "blockend"} => arch.sp_offset \in DOMAIN blockstate.regs

\* the statement about to be interpreted is made of temporary reads,
\* register reads and literals only, and reads a temporary that no earlier
\* statement of the same instruction has written
AtUnwrittenTempRead ==
    /\ pc = "stmt" /\ AtStatement
    /\ \A e \in StmtExprs(CurStmt) : e.tag \in {"Iex_RdTmp", "Iex_Get", "Iex_Const"}
    /\ \E t \in TempsRead(CurStmt) : t \notin DOMAIN blockstate.tempstore

\* C16: every instruction of a block starts with an empty TempStore while
\* the registers, the memory map and the tags of the block stay as the
\* earlier instructions left them; a read of a temporary not written earlier
\* in the same instruction raises ValueError; a read of a register or of a
\* frame slot yields what an earlier statement or instruction wrote there
C16_TempsPerInstruction ==
    /\ [][(pc = "insn" /\ pc' = "stmt") =>
            /\ blockstate'.tempstore = EmptyMap
            /\ blockstate'.regs = blockstate.regs
            /\ blockstate'.mem_regions = blockstate.mem_regions
            /\ blockstate'.tags = blockstate.tags]_vars
    /\ [][AtUnwrittenTempRead => (pc' = "raise" /\ exc' = "ValueError")]_vars
    /\ [][(pc = "stmt" /\ AtStatement /\ CurStmt.tag = "Ist_WrTmp" /\ pc' = "stmt") =>
            LET d == CurStmt.data
                t == blockstate'.tempstore[CurStmt.tmp]
            IN /\ (d.tag = "Iex_Get" /\ d.offset \in DOMAIN blockstate.regs
                   /\ d.ty = blockstate.regs[d.offset].type) =>
                      /\ t.cleanval = blockstate.regs[d.offset].cleanval
                      /\ t.taints = blockstate.regs[d.offset].taints
               /\ (d.tag = "Iex_Load" /\ d.addr.tag = "Iex_RdTmp") =>
                     LET a == blockstate.tempstore[d.addr.tmp]
                         key == <<a.taints.pointer, a.cleanval>>
                     IN (a.taints.pointer # "" /\ key \in DOMAIN blockstate.mem_regions
                         /\ blockstate.mem_regions[key].type = d.ty) =>
                           /\ t.cleanval = blockstate.mem_regions[key].cleanval
                           /\ t.taints = blockstate.mem_regions[key].taints]_vars

\* an instruction read temporary 0, which the instruction before it in the
\* block had written, and ValueError was raised
C16_Witness ==
    /\ pc = "raise" /\ exc = "ValueError" /\ AtStatement
    /\ CurStmt = Put(GPR.a, RdTmp(0))
    /\ run.mi > 1
    /\ \E st \in {project.code[run.mark_addrs[run.mi - 1]].stmts[i] :
                    i \in DOMAIN project.code[run.mark_addrs[run.mi - 1]].stmts} :
          st.tag = "Ist_WrTmp" /\ st.tmp = 0
    /\ blockstate.tempstore = EmptyMap
    /\ blockstate.regs[arch.sp_offset].cleanval # BVV(0, ArchBits)

\* the call a frame receives for a tag
CallFor(tag) == <<IF tag[1] = "ALLOC" THEN "alloc" ELSE "access", tag[2]>>

\* C17: the calls a function's frame receives are the tag logs of the
\* completed blocks, one after the other in the order the blocks were
\* processed, each in append order: a block end appends one call for every
\* tag in the block's log, in order, after the calls of the earlier blocks;
\* no other step of the analysis gives the frame a call; the frame starts
\* with no calls and is filed with exactly the calls it has received
C17_TagsDrainedInOrder ==
    /\ [][(pc = "blockend" /\ pc' = "loop") =>
            LET t == blockstate'.tags
                old == run.struct.calls
                new == run'.struct.calls
            IN /\ Len(new) = Len(old) + Len(t)
               /\ \A i \in DOMAIN old : new[i] = old[i]
               /\ \A i \in DOMAIN t : new[Len(old) + i] = CallFor(t[i])]_vars
    /\ [][((pc \in {"loop", "insn", "stmt"} /\ pc' # "driver") \/ pc' = "raise") =>
            run'.struct.calls = run.struct.calls]_vars
    /\ [][(pc = "driver" /\ pc' = "loop") => run'.struct.calls = <<>>]_vars
    /\ [][(pc = "loop" /\ pc' = "driver") =>
            /\ structures'[run.struct.name] = run.struct.calls
            /\ run' = run]_vars

\* a second block of a function has been completed: its tags are the last
\* calls of the frame, after the calls of the first block
C17_Witness ==
    /\ pc = "loop" /\ Cardinality(run.headcache) >= 2
    /\ blockstate.addr \in run.headcache
    /\ Len(blockstate.tags) >= 2
    /\ Len(run.struct.calls) > Len(blockstate.tags)
    /\ \A i \in DOMAIN blockstate.tags :
          run.struct.calls[Len(run.struct.calls) - Len(blockstate.tags) + i]
            = CallFor(blockstate.tags[i])
    /\ \E i, j \in DOMAIN blockstate.tags : blockstate.tags[i][1] # blockstate.tags[j][1]

\* C18: with chase_structs set, the constructor is rejected before any
\* function is analysed: no traversal runs and no frame is recorded
C18_ChaseRejectedFirst ==
    chase_structs =>
        /\ pc \in {"driver", "aborted"}
        /\ run = NoRun
        /\ structures = EmptyMap /\ stack_frames = EmptyMap

\* the functions get_real_functions has just returned
Returned == {functions_list'[i] : i \in DOMAIN functions_list'}

\* C19: the list get_real_functions builds holds no function whose head
\* block is simulated (the CFG node at its address has a simulated-procedure
\* name) and no function with an unresolved indirect jump
C19_NoSimulatedHead ==
    [][(pc = "functions" /\ pc' = "driver") =>
         \A f \in Returned :
            /\ f \in DOMAIN cfg.nodes => cfg.nodes[f].simprocedure_name = ""
            /\ f \notin cfg.unresolved]_vars

\* C20: the list get_real_functions builds holds no function outside the
\* executable code region: none that no segment contains, and, when the
\* binary has a .text section, none that the .text section does not contain
C20_InCodeRegion ==
    [][(pc = "functions" /\ pc' = "driver") =>
         \A f \in Returned :
            /\ find_segment_containing(f) # {}
            /\ HasTextSection =>
                 \E sec \in project.main_bin.sections :
                    sec.name = ".text" /\ f \in sec.addrs]_vars

(***************************************************************************)
(* Successor discovery.                                                    *)
(***************************************************************************)
\* the targets of the fallthrough-like edges the graph has out of the node at n
FallThrough(n) ==
    IF n \in DOMAIN cfg.nodes
    THEN {e.addr : e \in {x \in cfg.nodes[n].succs : x.jumpkind \in OK_CONTINUE_JUMPS}}
    ELSE {}

\* C21: every state enqueued after the seed has the address of a
\* fallthrough-like successor of the block just interpreted that is not a
\* visited block head and was not interpreted yet, or, for such a successor
\* whose address was already interpreted as an instruction without being a
\* block head, the address of a fallthrough-like successor of that successor
\* that was not interpreted yet; so nothing reached only by call, exception
\* or unresolved edges is enqueued; only a block end enqueues; a block that
\* ends in a return or in undecodable bytes enqueues nothing
C21_SuccessorsEnqueued ==
    /\ [][(pc = "blockend" /\ pc' = "loop") =>
            \A c \in Enqueued :
               LET direct == FallThrough(blockstate.addr) \ run.headcache
               IN /\ \/ c.addr \in direct \ run.cache
                     \/ \E n \in direct \cap run.cache :
                           c.addr \in FallThrough(n) \ run.cache
                  /\ \E n \in DOMAIN cfg.nodes : c.addr \in FallThrough(n)]_vars
    /\ [][(pc = "blockend" /\ run.jumpkind \in {"Ijk_Ret", "Ijk_NoDecode"}) =>
            (pc' = "loop" /\ run'.queue = run.queue)]_vars
    /\ [][Len(run'.queue) > Len(run.queue) =>
            \/ pc = "blockend"
            \/ pc = "driver" /\ Len(run'.queue) = 1]_vars

\* a block has ended whose successor 2 had been interpreted inside a block
\* without being a block head, and the successor of that successor, which
\* the block has no edge to, is the last state of the worklist
C21_Witness ==
    /\ pc = "loop" /\ run.queue # <<>> /\ blockstate.addr \in run.headcache
    /\ LET c == run.queue[Len(run.queue)]
       IN /\ c.addr \notin FallThrough(blockstate.addr)
          /\ c.addr \notin run.cache
          /\ \E n \in (FallThrough(blockstate.addr) \cap run.cache) \ run.headcache :
                c.addr \in FallThrough(n)

(***************************************************************************)
(* ACCESS tags.                                                            *)
(***************************************************************************)
\* the node has the region taint of the function being analysed
InScope(e) == e.taints.pointer = run.struct.name

\* the node of an operand that is a temporary or a literal
OperandNode(x) ==
    IF x.tag = "Iex_RdTmp" THEN blockstate.tempstore[x.tmp] ELSE [taints |-> NoTaints]

IsSimpleOperand(x) ==
    \/ x.tag = "Iex_Const"
    \/ x.tag = "Iex_RdTmp" /\ x.tmp \in DOMAIN blockstate.tempstore

\* the flags of the ACCESS tags the step appends to the tag log
NewAccess ==
    LET new == SelectSeq(SubSeq(blockstate'.tags, Len(blockstate.tags) + 1,
                                Len(blockstate'.tags)),
                         LAMBDA t : t[1] = "ACCESS")
    IN [i \in DOMAIN new |-> new[i][2].flags]

\* the tag an access with the node e appends
Tagged(e, flag) == IF InScope(e) THEN <<flag>> ELSE <<>>

\* C22: an ACCESS tag is appended only for an expression whose region taint
\* is the region of the function being analysed: a memory read, a memory
\* write, a pointer store and the register check of the block end append
\* one tag when the expression has that taint and none when it has no region
\* taint or the taint of another region; a statement without memory access
\* appends no ACCESS tag, and no other step appends to the tag log
C22_AccessOnlyInScope ==
    /\ [][(pc = "stmt" /\ AtStatement /\ pc' = "stmt") =>
            /\ SubSeq(blockstate'.tags, 1, Len(blockstate.tags)) = blockstate.tags
            /\ (CurStmt.tag \in {"Ist_Store", "Ist_StoreG"}
                /\ IsSimpleOperand(CurStmt.addr) /\ IsSimpleOperand(CurStmt.data)) =>
                  NewAccess = Tagged(OperandNode(CurStmt.addr), AccessType.WRITE)
                              \o Tagged(OperandNode(CurStmt.data), AccessType.POINTER)
            /\ (CurStmt.tag = "Ist_WrTmp" /\ CurStmt.data.tag = "Iex_Load"
                /\ IsSimpleOperand(CurStmt.data.addr)) =>
                  NewAccess = Tagged(OperandNode(CurStmt.data.addr), AccessType.READ)
            /\ (CurStmt.tag = "Ist_LoadG" /\ IsSimpleOperand(CurStmt.addr)) =>
                  NewAccess = Tagged(OperandNode(CurStmt.addr), AccessType.READ)
            /\ (CurStmt.tag \notin {"Ist_Store", "Ist_StoreG", "Ist_LoadG"}
                /\ \A e \in StmtExprs(CurStmt) :
                      \A x \in ExprsBelow(e) : x.tag # "Iex_Load") =>
                  NewAccess = <<>>]_vars
    /\ [][(pc = "blockend" /\ pc' = "loop") =>
            LET kept == IF run.jumpkind = "Ijk_Call" /\ arch.call_pushes_ret
                        THEN Len(blockstate.tags) - 2 ELSE Len(blockstate.tags)
                new == SubSeq(blockstate'.tags, kept + 1, Len(blockstate'.tags))
                checked == {o \in DOMAIN blockstate.regs \
                                   {arch.sp_offset, arch.bp_offset, arch.ip_offset} :
                               InScope(blockstate.regs[o])}
            IN /\ SubSeq(blockstate'.tags, 1, kept) = SubSeq(blockstate.tags, 1, kept)
               /\ Len(new) = Cardinality(checked)
               /\ \A i \in DOMAIN new :
                     \E o \in checked :
                        new[i] = <<"ACCESS", make_bindata(blockstate.regs[o],
                                                         AccessType.POINTER)>>]_vars
    /\ [][pc = "insn" => blockstate'.tags = blockstate.tags]_vars
    /\ [][(pc = "loop" /\ pc' = "insn") => blockstate'.tags = <<>>]_vars

\* a pointer into the frame has been stored through a pointer into another
\* region: the memory map has the slot of the other region, and the tag log
\* has the POINTER tag of the value and no WRITE tag
C22_Witness ==
    /\ pc = "stmt" /\ run.si = 4
    /\ project.code[1].stmts = store_reg(GPR.a, GPR.b).stmts
    /\ blockstate.tempstore[0].taints.pointer = StructName(2)
    /\ InScope(blockstate.tempstore[1])
    /\ <<StructName(2), blockstate.tempstore[0].cleanval>> \in DOMAIN blockstate.mem_regions
    /\ Len(blockstate.tags) = 1
    /\ blockstate.tags[1][1] = "ACCESS"
    /\ blockstate.tags[1][2].flags = AccessType.POINTER

(***************************************************************************)
(* The taints of a register write.                                         *)
(***************************************************************************)
\* the statement about to be interpreted puts a temporary into a register
\* that holds a value
AtPutOver ==
    /\ pc = "stmt" /\ AtStatement
    /\ CurStmt.tag = "Ist_Put" /\ CurStmt.data.tag = "Iex_RdTmp"
    /\ CurStmt.offset \in DOMAIN blockstate.regs
    /\ CurStmt.data.tmp \in DOMAIN blockstate.tempstore

\* the written value is the new value itself when it is not the narrower one
PutKeepsWideValue ==
    [][(AtPutOver /\ blockstate.tempstore[CurStmt.data.tmp].size
                       >= blockstate.regs[CurStmt.offset].size) =>
         LET n == blockstate.tempstore[CurStmt.data.tmp]
             o == blockstate'.regs[CurStmt.offset]
         IN /\ o.cleanval = n.cleanval /\ o.taints = n.taints
            /\ o.size = n.size /\ o.type = n.type /\ o.deps = n.deps]_vars

\* C23: when a narrower value is written over a wider register value, the
\* region taint and the concreteness of the result are those of the
\* overwritten value, whatever the narrow value's; when the new value is not
\* the narrower one the result is the new value itself with its own taints
C23_OverwriteTakesWideTaints ==
    /\ [][AtNarrowPut =>
            LET w == blockstate.regs[CurStmt.offset]
                o == blockstate'.regs[CurStmt.offset]
            IN /\ o.taints.pointer = w.taints.pointer
               /\ o.taints.concrete = w.taints.concrete]_vars
    /\ PutKeepsWideValue

\* C23, as the code has it: the region taint of the result is that of the
\* overwritten value, whatever the narrow value's; the result is concrete
\* exactly when both the overwritten and the narrow value are; when the new
\* value is not the narrower one the result is the new value itself
C23_OverwriteConcreteWhenBoth ==
    /\ [][AtNarrowPut =>
            LET n == blockstate.tempstore[CurStmt.data.tmp]
                w == blockstate.regs[CurStmt.offset]
                o == blockstate'.regs[CurStmt.offset]
            IN /\ o.taints.pointer = w.taints.pointer
               /\ o.taints.concrete = (w.taints.concrete /\ n.taints.concrete)]_vars
    /\ PutKeepsWideValue

\* a narrow value that is not concrete has been written over a concrete
\* pointer into the frame: the register keeps the region and is not concrete
C23_Witness ==
    /\ pc = "stmt" /\ run.si = 3
    /\ project.code[1].stmts = narrow_write_read.stmts
    /\ LET o == blockstate.regs[GPR.a]
       IN /\ o.cls = "Custom" /\ Len(o.deps) = 2
          /\ o.taints.pointer = StructName(1)
          /\ ~o.taints.concrete
          /\ ~o.deps[1].taints.concrete
          /\ o.deps[2].taints.concrete /\ o.deps[2].taints.pointer = StructName(1)

(***************************************************************************)
(* Operators the symbolic-value engine cannot evaluate.                    *)
(***************************************************************************)
\* the statement about to be interpreted writes, to a temporary or to a
\* register other than the stack pointer, an operator node whose opcode is
\* missing from the table or whose semantics raise SimOperationError; its
\* arguments are register reads and literals
AtFailingOperator ==
    /\ pc = "stmt" /\ AtStatement
    /\ CurStmt.tag \in {"Ist_WrTmp", "Ist_Put"} /\ ~IsSpPut(CurStmt)
    /\ CurStmt.data.tag = "Iex_Binop"
    /\ (CurStmt.data.op.base \notin operations \/ RaisesSimOperationError(CurStmt.data.op))
    /\ \A i \in DOMAIN CurStmt.data.args :
          CurStmt.data.args[i].tag \in {"Iex_Get", "Iex_Const"}

\* C24: a failure to evaluate an n-ary operator node (opcode missing from
\* the semantics table, or semantics raising the operation error) is caught
\* at the node: the node is not concrete and has no region taint, the next
\* statement of the block is interpreted next, and neither failure ever
\* leaves the expression as an exception of the analysis
C24_OperatorFailureCaught ==
    /\ [][AtFailingOperator =>
            LET node == IF CurStmt.tag = "Ist_Put" THEN blockstate'.regs[CurStmt.offset]
                        ELSE blockstate'.tempstore[CurStmt.tmp]
            IN /\ pc' = "stmt" /\ exc' = ""
               /\ run' = [run EXCEPT !.si = @ + 1]
               /\ ~node.taints.concrete
               /\ node.taints.pointer = ""]_vars
    /\ [](exc \notin {"KeyError", "SimOperationError"})

\* a function one of whose instructions divides the stack pointer, which the
\* engine cannot evaluate, has been analysed to its end and its frame filed;
\* the register written holds a node without region taint that is not
\* concrete, made from the concrete pointer into the frame
C24_Witness ==
    /\ pc = "done" /\ 1 \in DOMAIN stack_frames
    /\ 2 \in DOMAIN project.code /\ project.code[2] = failing_op(arch)
    /\ GPR.a \in DOMAIN blockstate.regs
    /\ LET node == blockstate.regs[GPR.a]
       IN /\ ~node.taints.concrete /\ node.taints.pointer = ""
          /\ Len(node.deps) = 2
          /\ node.deps[1].taints.pointer = run.struct.name
          /\ node.deps[1].taints.concrete /\ node.deps[2].taints.concrete

(***************************************************************************)
(* ALLOC tags.                                                             *)
(***************************************************************************)
\* the statement about to be interpreted writes a concrete value, held by a
\* temporary or a literal, to the stack pointer
ConcreteSpWrite ==
    /\ pc = "stmt" /\ AtStatement /\ IsSpPut(CurStmt)
    /\ IsSimpleOperand(CurStmt.data)
    /\ CurStmt.data.tag = "Iex_RdTmp" => OperandNode(CurStmt.data).taints.concrete

\* the value the statement writes
WrittenValue ==
    IF CurStmt.data.tag = "Iex_RdTmp" THEN OperandNode(CurStmt.data).cleanval
    ELSE BVV(CurStmt.data.value, CurStmt.data.ty.n)

\* C25: every write of a concrete value to the stack-pointer register
\* appends exactly one ALLOC tag, which carries the written value, to the
\* tag log of the block, be the value zero or not and be it the value the
\* stack pointer had or another; no other statement and no other step of
\* the traversal appends an ALLOC tag
C25_AllocForEverySpWrite ==
    /\ [][ConcreteSpWrite =>
            /\ pc' = "stmt"
            /\ Len(blockstate'.tags) = Len(blockstate.tags) + 1
            /\ SubSeq(blockstate'.tags, 1, Len(blockstate.tags)) = blockstate.tags
            /\ blockstate'.tags[Len(blockstate'.tags)][1] = "ALLOC"
            /\ blockstate'.tags[Len(blockstate'.tags)][2].value = Signed(WrittenValue)
            /\ blockstate'.tags[Len(blockstate'.tags)][2].flags = 0]_vars
    /\ [][(pc = "stmt" /\ AtStatement /\ ~IsSpPut(CurStmt)) =>
            AllocCount(blockstate'.tags) = AllocCount(blockstate.tags)]_vars
    /\ [][pc = "insn" => AllocCount(blockstate'.tags) = AllocCount(blockstate.tags)]_vars
    /\ [][pc = "blockend" => AllocCount(blockstate'.tags) <= AllocCount(blockstate.tags)]_vars
    /\ [][(pc = "loop" /\ pc' = "insn") => AllocCount(blockstate'.tags) = 0]_vars

\* after the prologue the stack pointer has been set to zero and then to
\* zero again: the tag log has three ALLOC tags, the last two with value 0
C25_Witness ==
    /\ pc = "stmt" /\ run.mi = 3 /\ run.si = 2
    /\ project.code[3] = movi(arch.sp_offset, 0)
    /\ project.code[2] = movi(arch.sp_offset, 0)
    /\ Len(blockstate.tags) = 3
    /\ \A i \in 1 .. 3 : blockstate.tags[i][1] = "ALLOC"
    /\ blockstate.tags[1][2].value # 0
    /\ blockstate.tags[2][2].value = 0 /\ blockstate.tags[3][2].value = 0

(***************************************************************************)
(* Coverage of the traversal.                                              *)
(***************************************************************************)
\* the node at n is code of the binary: its bytes are mapped, and it is not
\* a simulated procedure
IsCodeNode(n) ==
    /\ n \in DOMAIN project.code
    /\ n \in DOMAIN cfg.nodes => cfg.nodes[n].simprocedure_name = ""

\* the nodes the graph reaches from the nodes of S over fallthrough-like
\* edges, going on from a node only when its block decodes to its end
RECURSIVE ReachFrom(_)
ReachFrom(S) ==
    LET next == S \cup {a \in UNION {FallThrough(n) :
                                        n \in {m \in S : lift(m).jumpkind # "Ijk_NoDecode"}} :
                            IsCodeNode(a)}
    IN IF next = S THEN S ELSE ReachFrom(next)

\* the instructions of the blocks at those nodes
ReachableInstructions(f) ==
    UNION {{MarkAddrs(lift(n))[i] : i \in DOMAIN MarkAddrs(lift(n))} : n \in ReachFrom({f})}

\* C26: when the traversal of a function ends without a failure, every
\* instruction reachable from the entry over fallthrough-like edges of the
\* graph, through mapped code, has been interpreted, also when consecutive
\* nodes of the graph lie inside one lifted block
C26_ReachableInterpreted ==
    [][(pc = "loop" /\ pc' = "driver") =>
          ReachableInstructions(run.funcaddr) \subseteq run.cache]_vars

(***************************************************************************)
(* What a successor state starts with.                                     *)
(***************************************************************************)
\* the statement about to be interpreted loads, into a temporary, a frame
\* slot that the memory map of the block does not hold
AtLoadOfUnwrittenSlot ==
    /\ pc = "stmt" /\ AtStatement
    /\ CurStmt.tag = "Ist_WrTmp" /\ CurStmt.data.tag = "Iex_Load"
    /\ CurStmt.data.addr.tag = "Iex_RdTmp" /\ IsSimpleOperand(CurStmt.data.addr)
    /\ InScope(OperandNode(CurStmt.data.addr))
    /\ <<run.struct.name, OperandNode(CurStmt.data.addr).cleanval>>
          \notin DOMAIN blockstate.mem_regions

\* C27: a state copy made for a successor has an empty memory map, an empty
\* tag log and no TempStore, and so has every state when its block starts;
\* a load of a frame slot the block has not stored to yields the default of
\* the type, without region taint and not concrete, whatever a predecessor
\* stored there; the calls a block end gives the frame are as many as the
\* tags the block itself logged
C27_SuccessorStartsEmpty ==
    /\ [][(pc = "blockend" /\ pc' = "loop") =>
            /\ \A c \in Enqueued :
                  /\ c.mem_regions = EmptyMap /\ c.tags = <<>>
                  /\ ~c.hasTemps /\ c.tempstore = EmptyMap
            /\ Len(run'.struct.calls) = Len(run.struct.calls) + Len(blockstate'.tags)]_vars
    /\ [][(pc = "loop" /\ pc' = "insn") =>
            /\ blockstate'.mem_regions = EmptyMap /\ blockstate'.tags = <<>>
            /\ ~blockstate'.hasTemps]_vars
    /\ [][AtLoadOfUnwrittenSlot =>
            /\ pc' = "stmt"
            /\ blockstate'.tempstore[CurStmt.tmp].taints = NoTaints
            /\ blockstate'.tempstore[CurStmt.tmp].cleanval
                  = make_default_value(CurStmt.data.ty)]_vars

\* the first block stored the literal 7 to a frame slot and loaded it back;
\* its successor has loaded the same slot and got the default: the frame has
\* the WRITE and the READ of the first block, the tag log of the successor
\* has its own READ of the slot only
C27_Witness ==
    /\ pc = "stmt" /\ run.mi = 1 /\ run.si = 4
    /\ blockstate.addr = 5 /\ project.code[2] = storei_sp(arch, 8, 7)
    /\ blockstate.tempstore[2].taints = NoTaints
    /\ blockstate.tempstore[2].cleanval = BVV(0, ArchBits)
    /\ blockstate.mem_regions = EmptyMap
    /\ Len(blockstate.tags) = 1
    /\ blockstate.tags[1][2].flags = AccessType.READ
    /\ \E i, j \in DOMAIN run.struct.calls :
          /\ run.struct.calls[i][2].flags = AccessType.WRITE
          /\ run.struct.calls[j][2].flags = AccessType.READ
          /\ run.struct.calls[i][2].value = blockstate.tags[1][2].value
          /\ run.struct.calls[j][2].value = blockstate.tags[1][2].value

(***************************************************************************)
(* Narrow reads of a register.                                             *)
(***************************************************************************)
\* C28: a read of a register at a type narrower than the value it holds
\* yields a node without region taint that is as concrete as the value, and
\* a load through such a node logs no ACCESS tag; a read at the type of the
\* value yields the value with its taints, the region taint among them
C28_NarrowReadDropsRegion ==
    /\ [][(AtRegRead /\ CurStmt.data.ty.n < blockstate.regs[CurStmt.data.offset].size) =>
            LET r == blockstate.regs[CurStmt.data.offset]
                t == blockstate'.tempstore[CurStmt.tmp]
            IN /\ pc' = "stmt"
               /\ t.size = CurStmt.data.ty.n
               /\ t.taints.pointer = ""
               /\ t.taints.concrete = r.taints.concrete]_vars
    /\ [][(AtRegRead /\ CurStmt.data.ty = blockstate.regs[CurStmt.data.offset].type) =>
            LET r == blockstate.regs[CurStmt.data.offset]
                t == blockstate'.tempstore[CurStmt.tmp]
            IN /\ pc' = "stmt"
               /\ t.taints = r.taints /\ t.cleanval = r.cleanval
               /\ t.deps = r.deps /\ t.size = r.size /\ t.type = r.type
               /\ t.rootval = r.rootval]_vars
    /\ [][(pc = "stmt" /\ AtStatement /\ pc' = "stmt"
           /\ CurStmt.tag = "Ist_WrTmp" /\ CurStmt.data.tag = "Iex_Load"
           /\ CurStmt.data.addr.tag = "Iex_RdTmp" /\ IsSimpleOperand(CurStmt.data.addr)
           /\ OperandNode(CurStmt.data.addr).size < arch.bits) =>
            blockstate'.tags = blockstate.tags]_vars

\* register a holds a pointer into the frame; the load through its low bits
\* logged nothing, the load through the whole register logged the one READ
C28_Witness ==
    /\ pc = "stmt" /\ run.si = 5
    /\ project.code[1].stmts = narrow_address.stmts
    /\ InScope(blockstate.regs[GPR.a])
    /\ blockstate.tempstore[0].size = NarrowBits
    /\ blockstate.tempstore[0].taints.pointer = ""
    /\ blockstate.tempstore[0].cleanval
          = Extract(NarrowBits - 1, 0, blockstate.regs[GPR.a].cleanval)
    /\ InScope(blockstate.tempstore[2])
    /\ Len(blockstate.tags) = 1
    /\ blockstate.tags[1][2].flags = AccessType.READ
    /\ blockstate.tags[1][2].value = Signed(blockstate.regs[GPR.a].cleanval)

====
